---- MODULE Spec2Model ----
(***************************************************************************)
(* Model of simpleperf's report command (src/simpleperf/cmd_report.cpp):   *)
(* the per-event sample tree builders, the off-CPU (timestamp) builder,    *)
(* the filters, the comparator built from the sort keys, and the phases of *)
(* ReportCommand::Run.  The template library the command is built on       *)
(* (sample_tree.h, sample_comparator.h, thread_tree.h) is not part of the  *)
(* modelled file; its operations are modelled from the specification and   *)
(* are marked "library" below.                                             *)
(***************************************************************************)
EXTENDS Integers, Sequences, FiniteSets, TLC

VARIABLES
  pc,                  \* position of ReportCommand::Run
  args,                \* the command line (input)
  file,                \* the record file: header and whether it can be read (input)
  opt,                 \* the option members of ReportCommand set by ParseOptions
  event_attrs,         \* event_attrs_
  trace_offcpu,        \* trace_offcpu_
  sched_switch_attr_id,\* sched_switch_attr_id_
  thread_tree,         \* thread_tree_: comm of each thread
  sample_tree_builder, \* sample_tree_builder_
  sample_tree,         \* sample_tree_
  report,              \* what PrintReport has written
  nrecords,            \* records read from the data section so far
  last                 \* history: what the last ProcessRecord call did

vars == <<pc, args, file, opt, event_attrs, trace_offcpu, sched_switch_attr_id,
          thread_tree, sample_tree_builder, sample_tree, report, nrecords, last>>

(***************************************************************************)
(* Bounds of the model.                                                    *)
(***************************************************************************)
\* records read from the data section of a file without off-CPU tracing
MaxRecords == 2
\* records read from the data section of an off-CPU file
MaxOffCpuRecords == 3
\* largest event count of a sample record
MaxPeriod == 2
\* largest timestamp of a sample record in an off-CPU file
MaxTime == 3

Min(a, b) == IF a < b THEN a ELSE b

RECURSIVE SumSeq(_)
SumSeq(s) == IF s = <<>> THEN 0 ELSE Head(s) + SumSeq(Tail(s))

RECURSIVE Reverse(_)
Reverse(s) == IF s = <<>> THEN <<>> ELSE Append(Reverse(Tail(s)), Head(s))

SeqContains(s, x) == \E i \in 1..Len(s) : s[i] = x

(***************************************************************************)
(* Symbolizer and thread registry (library, external to the command).      *)
(* Instruction addresses 1 and 2 lie in symbol f of a.so, 3 in g and 5 in   *)
(* h of b.so, every other address maps to the unknown dso.                 *)
(***************************************************************************)
UnknownDso == "unknown"

Tids == {1, 2}

\* thread_tree_.FindThreadOrNew(pid, tid)
FindThreadOrNew(tt, pid, tid) == [pid |-> pid, tid |-> tid, comm |-> tt[tid]]

\* thread_tree_.FindMap(thread, ip): the report path of the dso of the map
FindMap(thread, ip) ==
  IF ip \in {1, 2} THEN "a.so" ELSE IF ip \in {3, 5} THEN "b.so" ELSE UnknownDso

\* thread_tree_.IsUnknownDso(map->dso)
IsUnknownDso(map) == map = UnknownDso

\* thread_tree_.FindSymbol(map, ip, &vaddr_in_file)
FindSymbol(map, ip) ==
  [symbol |-> IF map = "a.so" THEN "f"
              ELSE IF map = "b.so" THEN (IF ip = 5 THEN "h" ELSE "g")
              ELSE "unknown",
   vaddr_in_file |-> ip]

\* strcmp order of the names that occur
NameOrder == <<"", "a.so", "app", "b.so", "f", "g", "h", "sh", "unknown">>
NameRank(s) == CHOOSE i \in 1..Len(NameOrder) : NameOrder[i] = s

(***************************************************************************)
(* SampleEntry                                                             *)
(***************************************************************************)
\* BranchFromEntry()
BranchFromEntry == [map |-> "", symbol |-> "", vaddr_in_file |-> 0, flags |-> 0]

\* SampleEntry::SampleEntry
\* an entry constructed without the time of its record
SampleEntryWithoutTime(time, period, accumulated_period, sample_count, cpu, thread, map, symbol, vaddr_in_file) ==
  [time |-> 0, period |-> period, accumulated_period |-> accumulated_period,
   sample_count |-> sample_count, cpu |-> cpu, pid |-> thread.pid, tid |-> thread.tid,
   thread_comm |-> thread.comm, map |-> map, symbol |-> symbol,
   vaddr_in_file |-> vaddr_in_file, branch_from |-> BranchFromEntry,
   callchain |-> {},
   duplicated |-> FALSE,
   chain_hits |-> 0]

SampleEntry(time, period, accumulated_period, sample_count, cpu, thread, map, symbol, vaddr_in_file) ==
  [time |-> time, period |-> period, accumulated_period |-> accumulated_period,
   sample_count |-> sample_count, cpu |-> cpu, pid |-> thread.pid, tid |-> thread.tid,
   thread_comm |-> thread.comm, map |-> map, symbol |-> symbol,
   vaddr_in_file |-> vaddr_in_file, branch_from |-> BranchFromEntry,
   callchain |-> {},
   \* callchain.duplicated: set by AddCallChainDuplicateInfo (library), which
   \* is not modelled
   duplicated |-> FALSE,
   \* history: the call chain entries stored as or merged into this entry
   chain_hits |-> 0]

(***************************************************************************)
(* Comparators (library: sample_comparator.h).  A comparator is a sequence *)
(* of compare function names; the result is that of the first function     *)
(* that does not return 0.                                                 *)
(***************************************************************************)
CompareValue(a, b) == IF a # b THEN (IF a < b THEN -1 ELSE 1) ELSE 0
CompareName(a, b) == CompareValue(NameRank(a), NameRank(b))

CallCompareFunction(fn, s1, s2) ==
  CASE fn = "ComparePid" -> CompareValue(s1.pid, s2.pid)
    [] fn = "CompareTid" -> CompareValue(s1.tid, s2.tid)
    [] fn = "CompareComm" -> CompareName(s1.thread_comm, s2.thread_comm)
    [] fn = "CompareDso" -> CompareName(s1.map, s2.map)
    [] fn = "CompareSymbol" -> CompareName(s1.symbol, s2.symbol)
    [] fn = "CompareVaddrInFile" -> CompareValue(s1.vaddr_in_file, s2.vaddr_in_file)
    [] fn = "CompareDsoFrom" -> CompareName(s1.branch_from.map, s2.branch_from.map)
    [] fn = "CompareSymbolFrom" ->
         CompareName(s1.branch_from.symbol, s2.branch_from.symbol)
    [] fn = "CompareTotalPeriod" ->
         CompareValue(s2.period + s2.accumulated_period,
                      s1.period + s1.accumulated_period)
    [] fn = "ComparePeriod" -> CompareValue(s2.period, s1.period)
    [] fn = "CompareCallGraphDuplicated" ->
         CompareValue(IF s1.duplicated THEN 1 ELSE 0, IF s2.duplicated THEN 1 ELSE 0)
    [] OTHER -> 0

RECURSIVE Compare(_, _, _)
Compare(comparator, s1, s2) ==
  IF comparator = <<>> THEN 0
  ELSE LET c == CallCompareFunction(Head(comparator), s1, s2)
       IN IF c # 0 THEN c ELSE Compare(Tail(comparator), s1, s2)

IsSameSample(comparator, s1, s2) == Compare(comparator, s1, s2) = 0

(***************************************************************************)
(* ReportCmdSampleTreeBuilder.  A builder is a record                      *)
(*   samples                 sample_storage_ / sample_set_, in the order   *)
(*                           the entries were stored; an entry is referred *)
(*                           to by its position (0 is nullptr)             *)
(*   total_samples, total_period, total_error_callchains, event_name       *)
(*   timestamp               TRUE for a TimestampSampleTreeBuilder         *)
(*   next_sample_cache       next_sample_cache_ (timestamp builder)        *)
(*   check_failed            a CHECK of the builder has failed             *)
(*   folded                  history: the samples and branch items that    *)
(*                           passed the filter                             *)
(*   received                history: per tid, the records handed to a     *)
(*                           timestamp builder                             *)
(*   registry_at             history: per tid, the thread tree when the    *)
(*                           record in next_sample_cache arrived           *)
(* The builder options o (comparator, filters, branch and call chain       *)
(* options) are those of SampleTreeBuilderOptions.                         *)
(***************************************************************************)
\* ReportCmdSampleTreeBuilder::ReportCmdSampleTreeBuilder
NewBuilder(timestamp) ==
  [samples |-> <<>>, total_samples |-> 0, total_period |-> 0,
   total_error_callchains |-> 0, event_name |-> "", timestamp |-> timestamp,
   next_sample_cache |-> <<>>, check_failed |-> FALSE, folded |-> 0, received |-> <<>>,
   registry_at |-> <<>>]

\* a filter that takes the cpu list as a list of cpus to leave out
FilterSampleCpuDenylist(o, sample) ==
  IF o.cpu_filter # {} /\ sample.cpu \in o.cpu_filter THEN FALSE
  ELSE IF o.pid_filter # {} /\ sample.pid \notin o.pid_filter THEN FALSE
  ELSE IF o.tid_filter # {} /\ sample.tid \notin o.tid_filter THEN FALSE
  ELSE IF o.comm_filter # {} /\ sample.thread_comm \notin o.comm_filter THEN FALSE
  ELSE IF o.dso_filter # {} /\ sample.map \notin o.dso_filter THEN FALSE
  ELSE IF o.symbol_filter # {} /\ sample.symbol \notin o.symbol_filter THEN FALSE
  ELSE TRUE

\* a filter whose comm allowlist rejects every sample when it is empty
FilterSampleEmptyCommRejects(o, sample) ==
  IF o.cpu_filter # {} /\ sample.cpu \notin o.cpu_filter THEN FALSE
  ELSE IF o.pid_filter # {} /\ sample.pid \notin o.pid_filter THEN FALSE
  ELSE IF o.tid_filter # {} /\ sample.tid \notin o.tid_filter THEN FALSE
  ELSE IF sample.thread_comm \notin o.comm_filter THEN FALSE
  ELSE IF o.dso_filter # {} /\ sample.map \notin o.dso_filter THEN FALSE
  ELSE IF o.symbol_filter # {} /\ sample.symbol \notin o.symbol_filter THEN FALSE
  ELSE TRUE

\* a filter that does not consult the symbol allowlist
FilterSampleIgnoresSymbols(o, sample) ==
  IF o.cpu_filter # {} /\ sample.cpu \notin o.cpu_filter THEN FALSE
  ELSE IF o.pid_filter # {} /\ sample.pid \notin o.pid_filter THEN FALSE
  ELSE IF o.tid_filter # {} /\ sample.tid \notin o.tid_filter THEN FALSE
  ELSE IF o.comm_filter # {} /\ sample.thread_comm \notin o.comm_filter THEN FALSE
  ELSE IF o.dso_filter # {} /\ sample.map \notin o.dso_filter THEN FALSE
  ELSE TRUE

\* ReportCmdSampleTreeBuilder::FilterSample
FilterSample(o, sample) ==
  IF o.cpu_filter # {} /\ sample.cpu \notin o.cpu_filter THEN FALSE
  ELSE IF o.pid_filter # {} /\ sample.pid \notin o.pid_filter THEN FALSE
  ELSE IF o.tid_filter # {} /\ sample.tid \notin o.tid_filter THEN FALSE
  ELSE IF o.comm_filter # {} /\ sample.thread_comm \notin o.comm_filter THEN FALSE
  ELSE IF o.dso_filter # {} /\ sample.map \notin o.dso_filter THEN FALSE
  ELSE IF o.symbol_filter # {} /\ sample.symbol \notin o.symbol_filter THEN FALSE
  ELSE TRUE

\* a summary that adds the period and leaves the number of samples alone
UpdateSummaryPeriodOnly(b, sample) ==
  [b EXCEPT !.total_period = @ + sample.period]

\* a summary that counts every inserted entry as one sample
UpdateSummaryCountsEntries(b, sample) ==
  [b EXCEPT !.total_samples = @ + 1, !.total_period = @ + sample.period]

\* ReportCmdSampleTreeBuilder::UpdateSummary
UpdateSummary(b, sample) ==
  [b EXCEPT !.total_samples = @ + sample.sample_count,
            !.total_period = @ + sample.period]

\* a merge that takes the time of the merged sample
MergeSampleLatestTime(sample1, sample2) ==
  [sample1 EXCEPT !.period = @ + sample2.period,
                  !.accumulated_period = @ + sample2.accumulated_period,
                  !.sample_count = @ + sample2.sample_count,
                  !.time = sample2.time]

\* a merge that forgets the period of the merged sample
MergeSampleKeepsPeriod(sample1, sample2) ==
  [sample1 EXCEPT !.accumulated_period = @ + sample2.accumulated_period,
                  !.sample_count = @ + sample2.sample_count]

\* ReportCmdSampleTreeBuilder::MergeSample
MergeSample(sample1, sample2) ==
  [sample1 EXCEPT !.period = @ + sample2.period,
                  !.accumulated_period = @ + sample2.accumulated_period,
                  !.sample_count = @ + sample2.sample_count]

\* sample_set_.find (library): the stored entry equal to sample, 0 if none
FirstOf(same) == IF same = {} THEN 0 ELSE CHOOSE i \in same : \A j \in same : i <= j

FindInSampleSet(o, b, sample) ==
  FirstOf({i \in 1..Len(b.samples) : IsSameSample(o.comparator, b.samples[i], sample)})

\* SampleTreeBuilder::InsertSample after the filter (library): summary, then
\* merge into the equal entry or store
StoreOrMergeAt(b, sample, it) ==
  IF it = 0
  THEN [b |-> [b EXCEPT !.samples = Append(@, sample)], res |-> Len(b.samples) + 1]
  ELSE [b |-> [b EXCEPT !.samples[it] =
                           [MergeSample(@, sample) EXCEPT
                              !.chain_hits = b.samples[it].chain_hits + sample.chain_hits]],
        res |-> it]

StoreOrMergeSample(o, b, sample) ==
  StoreOrMergeAt(UpdateSummary(b, sample), sample, FindInSampleSet(o, b, sample))

\* SampleTreeBuilder::InsertSample (library)
InsertSample(o, b, sample) ==
  IF ~FilterSample(o, sample) THEN [b |-> b, res |-> 0]
  ELSE StoreOrMergeSample(o, [b EXCEPT !.folded = @ + 1], sample)

\* SampleTreeBuilder::InsertCallChainSample (library): an entry already on the
\* call chain of this sample is not accumulated again; the filter is not
\* applied to call chain entries
InsertCallChainSampleAt(b, sample, callchain, it) ==
  IF it # 0 /\ SeqContains(callchain, it) THEN [b |-> b, res |-> it]
  ELSE StoreOrMergeAt(UpdateSummary(b, sample), sample, it)

InsertCallChainSample(o, b, sample, callchain) ==
  InsertCallChainSampleAt(b, sample, callchain, FindInSampleSet(o, b, sample))

\* a timestamp builder that takes the event count of the record as well
GetPeriodEventCount(b, r) ==
  IF ~b.timestamp THEN r.period
  ELSE IF r.tid \notin DOMAIN b.next_sample_cache THEN -1
  ELSE r.period

\* EventCountSampleTreeBuilder::GetPeriod and TimestampSampleTreeBuilder::GetPeriod;
\* -1 when the CHECK fails
GetPeriod(b, r) ==
  IF ~b.timestamp THEN r.period
  ELSE IF r.tid \notin DOMAIN b.next_sample_cache THEN -1
  ELSE IF b.next_sample_cache[r.tid].time > r.time
       THEN b.next_sample_cache[r.tid].time - r.time
       ELSE 1

\* ReportCmdSampleTreeBuilder::CreateSample
WithAccInfo(ins, acc_info) == [b |-> ins.b, res |-> ins.res, acc_info |-> acc_info]

\* a sample entry that starts with its own period as accumulated period
CreateSampleWithSelfAccumulated(o, b, r, thread, sym, period) ==
  IF period < 0
  THEN [b |-> [b EXCEPT !.check_failed = TRUE], res |-> 0, acc_info |-> 0]
  ELSE WithAccInfo(InsertSample(o, b, SampleEntry(r.time, period, period, 1, r.cpu, thread,
                                                 FindMap(thread, r.ip), sym.symbol,
                                                 sym.vaddr_in_file)),
                   period)

CreateSampleWith(o, b, r, thread, sym, period) ==
  IF period < 0
  THEN [b |-> [b EXCEPT !.check_failed = TRUE], res |-> 0, acc_info |-> 0]
  ELSE WithAccInfo(InsertSample(o, b, SampleEntry(r.time, period, 0, 1, r.cpu, thread,
                                                 FindMap(thread, r.ip), sym.symbol,
                                                 sym.vaddr_in_file)),
                   period)

CreateSample(o, tt, b, r) ==
  CreateSampleWith(o, b, r, FindThreadOrNew(tt, r.pid, r.tid),
                   FindSymbol(FindMap(FindThreadOrNew(tt, r.pid, r.tid), r.ip), r.ip),
                   GetPeriod(b, r))

\* ReportCmdSampleTreeBuilder::CreateBranchSample
BranchSample(r, item, thread, from_map, from_sym, to_map, to_sym) ==
  [SampleEntry(r.time, r.period, 0, 1, r.cpu, thread, to_map, to_sym.symbol,
               to_sym.vaddr_in_file)
   EXCEPT !.branch_from = [map |-> from_map, symbol |-> from_sym.symbol,
                           vaddr_in_file |-> from_sym.vaddr_in_file,
                           flags |-> item.flags]]

\* a branch sample that takes its period from GetPeriod
CreateBranchSampleGetPeriod(o, tt, b, r, item) ==
  InsertSample(o, b,
    [BranchSample(r, item, FindThreadOrNew(tt, r.pid, r.tid),
                  FindMap(FindThreadOrNew(tt, r.pid, r.tid), item.from),
                  FindSymbol(FindMap(FindThreadOrNew(tt, r.pid, r.tid), item.from), item.from),
                  FindMap(FindThreadOrNew(tt, r.pid, r.tid), item.to),
                  FindSymbol(FindMap(FindThreadOrNew(tt, r.pid, r.tid), item.to), item.to))
     EXCEPT !.period = GetPeriod(b, r)])

CreateBranchSample(o, tt, b, r, item) ==
  InsertSample(o, b,
    BranchSample(r, item, FindThreadOrNew(tt, r.pid, r.tid),
                 FindMap(FindThreadOrNew(tt, r.pid, r.tid), item.from),
                 FindSymbol(FindMap(FindThreadOrNew(tt, r.pid, r.tid), item.from), item.from),
                 FindMap(FindThreadOrNew(tt, r.pid, r.tid), item.to),
                 FindSymbol(FindMap(FindThreadOrNew(tt, r.pid, r.tid), item.to), item.to)))

\* a frame of the unknown dso is counted and gets an entry all the same
CreateCallChainSampleKeepsUnknown(o, b, thread, sample, ip, callchain, acc_info) ==
  InsertCallChainSample(o,
    IF IsUnknownDso(FindMap(thread, ip))
    THEN [b EXCEPT !.total_error_callchains = @ + 1] ELSE b,
    [SampleEntry(sample.time, 0, acc_info, 0, sample.cpu, thread, FindMap(thread, ip),
                 FindSymbol(FindMap(thread, ip), ip).symbol,
                 FindSymbol(FindMap(thread, ip), ip).vaddr_in_file)
     EXCEPT !.thread_comm = sample.thread_comm, !.chain_hits = 1],
    callchain)

\* ReportCmdSampleTreeBuilder::CreateCallChainSample
CallChainSample(thread, sample, map, sym, acc_info) ==
  [SampleEntry(sample.time, 0, acc_info, 0, sample.cpu, thread, map, sym.symbol,
               sym.vaddr_in_file)
   EXCEPT !.thread_comm = sample.thread_comm, !.chain_hits = 1]

\* a call chain entry that has to pass the filter like a sample
CreateCallChainSampleFiltered(o, b, thread, sample, ip, callchain, acc_info) ==
  IF IsUnknownDso(FindMap(thread, ip))
  THEN [b |-> [b EXCEPT !.total_error_callchains = @ + 1], res |-> 0]
  ELSE IF ~FilterSample(o, CallChainSample(thread, sample, FindMap(thread, ip),
                                           FindSymbol(FindMap(thread, ip), ip), acc_info))
  THEN [b |-> b, res |-> 0]
  ELSE InsertCallChainSample(o, b,
         CallChainSample(thread, sample, FindMap(thread, ip),
                         FindSymbol(FindMap(thread, ip), ip), acc_info),
         callchain)

CreateCallChainSample(o, b, thread, sample, ip, callchain, acc_info) ==
  IF IsUnknownDso(FindMap(thread, ip))
  THEN [b |-> [b EXCEPT !.total_error_callchains = @ + 1], res |-> 0]
  ELSE InsertCallChainSample(o, b,
         CallChainSample(thread, sample, FindMap(thread, ip),
                         FindSymbol(FindMap(thread, ip), ip), acc_info),
         callchain)

\* ReportCmdSampleTreeBuilder::GetThreadOfSample
GetThreadOfSample(tt, sample) == FindThreadOrNew(tt, sample.pid, sample.tid)

\* ReportCmdSampleTreeBuilder::GetPeriodForCallChain
GetPeriodForCallChain(acc_info) == acc_info

(***************************************************************************)
(* SampleTreeBuilder::ProcessSampleRecord (library).                       *)
(***************************************************************************)
\* the branch items of a record, one CreateBranchSample each
RECURSIVE ProcessBranchStack(_, _, _, _, _)
ProcessBranchStack(o, tt, b, r, items) ==
  IF items = <<>> THEN b
  ELSE ProcessBranchStack(o, tt, CreateBranchSample(o, tt, b, r, Head(items)).b, r,
                          Tail(items))

\* the loop over the ips of the call chain: the first ip is dropped when it is
\* the sampled ip, and the loop ends at the first frame CreateCallChainSample
\* gives no entry for
RECURSIVE WalkCallChain(_, _, _, _, _, _, _, _)
WalkCallChainStep(o, thread, sample, r, ips, st, cs) ==
  IF cs.res = 0 THEN [b |-> cs.b, callchain |-> st.callchain]
  ELSE WalkCallChain(o, cs.b, thread, sample, r, Tail(ips), FALSE,
                     [st EXCEPT !.callchain = Append(@, cs.res)])

WalkCallChain(o, b, thread, sample, r, ips, first_ip, st) ==
  IF ips = <<>> THEN [b |-> b, callchain |-> st.callchain]
  ELSE IF first_ip /\ Head(ips) = r.ip
       THEN WalkCallChain(o, b, thread, sample, r, Tail(ips), FALSE, st)
  ELSE WalkCallChainStep(o, thread, sample, r, ips, st,
         CreateCallChainSample(o, b, thread, b.samples[sample], Head(ips),
                               st.callchain, st.acc_info))

\* CallChainRoot::AddCallChain (library): every node on the path of the chain
\* accumulates the period
AddCallChain(root, chain, period) ==
  LET paths == {SubSeq(chain, 1, k) : k \in 1..Len(chain)}
      old(p) == IF \E n \in root : n.path = p
                THEN (CHOOSE n \in root : n.path = p).period ELSE 0
  IN {n \in root : n.path \notin paths}
     \cup {[path |-> p, period |-> old(p) + period] : p \in paths}

\* SampleTreeBuilder::InsertCallChainForSample (library)
InsertCallChainForSample(b, sample, callchain, acc_info) ==
  [b EXCEPT !.samples[sample].callchain =
               AddCallChain(@, callchain, GetPeriodForCallChain(acc_info))]

\* the loop that gives every entry of the chain the rest of the chain, once
RECURSIVE BuildCallChain(_, _, _, _)
BuildCallChain(b, callchain, added_set, acc_info) ==
  IF Len(callchain) < 2 THEN b
  ELSE IF Head(callchain) \in added_set
       THEN BuildCallChain(b, Tail(callchain), added_set, acc_info)
  ELSE BuildCallChain(InsertCallChainForSample(b, Head(callchain), Tail(callchain),
                                               acc_info),
                      Tail(callchain), added_set \cup {Head(callchain)}, acc_info)

\* SampleTreeBuilder::ProcessSampleRecord (library)
\* the call chain part, w the builder and the chain the loop over the ips left
ProcessCallChain(o, w, acc_info) ==
  IF ~o.build_callchain THEN w.b
  ELSE BuildCallChain(w.b,
                      IF o.use_caller_as_callchain_root
                      THEN Reverse(w.callchain) ELSE w.callchain,
                      {}, acc_info)

\* the part after CreateSample, cs its result
ProcessCreatedSample(o, tt, r, cs) ==
  IF cs.res = 0 THEN cs.b
  ELSE IF ~o.accumulate_callchain THEN cs.b
  ELSE ProcessCallChain(o,
         WalkCallChain(o, cs.b, GetThreadOfSample(tt, cs.b.samples[cs.res]), cs.res, r,
                       r.callchain, TRUE,
                       [callchain |-> <<cs.res>>, acc_info |-> cs.acc_info]),
         cs.acc_info)

ProcessSampleRecord(o, tt, b, r) ==
  IF o.use_branch_address /\ r.has_branch_stack
  THEN ProcessBranchStack(o, tt, b, r, r.branch_stack)
  ELSE ProcessCreatedSample(o, tt, r, CreateSample(o, tt, b, r))

\* ReportCmdSampleTreeBuilder::ReportCmdProcessSampleRecord(const SampleRecord&)
ReportCmdProcessSampleRecordRef(o, tt, b, r) == ProcessSampleRecord(o, tt, b, r)

\* a timestamp builder that folds the first record of a tid when it arrives
ReportCmdProcessSampleRecordFoldsFirst(o, tt, b, r) ==
  IF b.timestamp /\ r.tid \notin DOMAIN b.next_sample_cache
  THEN ProcessSampleRecord(o, tt,
         [b EXCEPT !.next_sample_cache =
                      [t \in DOMAIN @ \cup {r.tid} |-> IF t = r.tid THEN r ELSE @[t]],
                   !.received =
                      [t \in DOMAIN @ \cup {r.tid} |-> IF t = r.tid THEN 1 ELSE @[t]],
                   !.registry_at =
                      [t \in DOMAIN @ \cup {r.tid} |-> IF t = r.tid THEN tt ELSE @[t]]],
         r)
  ELSE ProcessSampleRecord(o, tt,
         IF b.timestamp
         THEN [b EXCEPT !.next_sample_cache[r.tid] = r, !.received[r.tid] = @ + 1,
                        !.registry_at[r.tid] = tt]
         ELSE b,
         IF b.timestamp THEN b.next_sample_cache[r.tid] ELSE r)

\* a timestamp builder fed through the entry point that takes the record by
\* reference, which does not go through next_sample_cache_
ReportCmdProcessSampleRecordBypassesCache(o, tt, b, r) == ProcessSampleRecord(o, tt, b, r)

\* ReportCmdProcessSampleRecord(std::shared_ptr<SampleRecord>&) of
\* ReportCmdSampleTreeBuilder and its override in TimestampSampleTreeBuilder
ReportCmdProcessSampleRecord(o, tt, b, r) ==
  IF b.timestamp /\ r.tid \notin DOMAIN b.next_sample_cache
  THEN [b EXCEPT !.next_sample_cache =
                    [t \in DOMAIN @ \cup {r.tid} |-> IF t = r.tid THEN r ELSE @[t]],
                 !.received =
                    [t \in DOMAIN @ \cup {r.tid} |-> IF t = r.tid THEN 1 ELSE @[t]],
                 !.registry_at =
                    [t \in DOMAIN @ \cup {r.tid} |-> IF t = r.tid THEN tt ELSE @[t]]]
  ELSE ProcessSampleRecord(o, tt,
         IF b.timestamp
         THEN [b EXCEPT !.next_sample_cache[r.tid] = r, !.received[r.tid] = @ + 1,
                        !.registry_at[r.tid] = tt]
         ELSE b,
         IF b.timestamp THEN b.next_sample_cache[r.tid] ELSE r)

\* SampleTreeBuilderOptions::CreateSampleTreeBuilder
CreateSampleTreeBuilder(o) == NewBuilder(o.trace_offcpu)

\* ReportCmdSampleTreeBuilder::GetSampleTree (the duplicate marks of
\* AddCallChainDuplicateInfo are not modelled)
GetSampleTree(b) ==
  [samples |-> b.samples, total_samples |-> b.total_samples,
   total_period |-> b.total_period,
   total_error_callchains |-> b.total_error_callchains, event_name |-> b.event_name]

(***************************************************************************)
(* ReportCommand: option parsing.                                          *)
(***************************************************************************)
branch_sort_keys == {"dso_from", "dso_to", "symbol_from", "symbol_to"}

DefaultSortKeys == <<"comm", "pid", "tid", "dso", "symbol">>

\* a key table that compares addresses for the key symbol
KeyCompareFunctionSymbolByAddress(key) ==
  CASE key = "pid" -> "ComparePid"
    [] key = "tid" -> "CompareTid"
    [] key = "comm" -> "CompareComm"
    [] key = "dso" -> "CompareDso"
    [] key = "symbol" -> "CompareVaddrInFile"
    [] key = "vaddr_in_file" -> "CompareVaddrInFile"
    [] key = "dso_from" -> "CompareDsoFrom"
    [] key = "dso_to" -> "CompareDso"
    [] key = "symbol_from" -> "CompareSymbolFrom"
    [] key = "symbol_to" -> "CompareSymbol"
    [] OTHER -> ""

\* the compare function BuildSampleComparatorAndDisplayer adds for a sort key,
\* "" for an unknown key
KeyCompareFunction(key) ==
  CASE key = "pid" -> "ComparePid"
    [] key = "tid" -> "CompareTid"
    [] key = "comm" -> "CompareComm"
    [] key = "dso" -> "CompareDso"
    [] key = "symbol" -> "CompareSymbol"
    [] key = "vaddr_in_file" -> "CompareVaddrInFile"
    [] key = "dso_from" -> "CompareDsoFrom"
    [] key = "dso_to" -> "CompareDso"
    [] key = "symbol_from" -> "CompareSymbolFrom"
    [] key = "symbol_to" -> "CompareSymbol"
    [] OTHER -> ""

\* the column header BuildSampleComparatorAndDisplayer adds for a sort key
KeyDisplayHeader(key) ==
  CASE key = "pid" -> "Pid"
    [] key = "tid" -> "Tid"
    [] key = "comm" -> "Command"
    [] key = "dso" -> "Shared Object"
    [] key = "symbol" -> "Symbol"
    [] key = "vaddr_in_file" -> "VaddrInFile"
    [] key = "dso_from" -> "Source Shared Object"
    [] key = "dso_to" -> "Target Shared Object"
    [] key = "symbol_from" -> "Source Symbol"
    [] key = "symbol_to" -> "Target Symbol"
    [] OTHER -> ""

\* a loop over the sort keys that takes branch keys without -b
RECURSIVE AddSortKeysNoBranchCheck(_, _, _)
AddSortKeysNoBranchCheck(use_branch_address, sort_keys, acc) ==
  IF sort_keys = <<>> THEN acc
  ELSE IF KeyCompareFunction(Head(sort_keys)) = ""
       THEN [acc EXCEPT !.ok = FALSE, !.error = "unknown sort key"]
       ELSE AddSortKeysNoBranchCheck(use_branch_address, Tail(sort_keys),
              [acc EXCEPT !.comparator = Append(@, KeyCompareFunction(Head(sort_keys))),
                          !.displayer = Append(@, KeyDisplayHeader(Head(sort_keys)))])

\* stands for UINT32_MAX (2^32 - 1), which is above the integers of the model
\* checker; the value is only compared for equality
UINT32_MAX == 2147483647

\* no call graph displayer added to the displayer
NoCallgraphDisplayer ==
  [class |-> "", max_stack |-> 0, percent_limit |-> 0, brief_callgraph |-> FALSE]

\* the loop over the sort keys of BuildSampleComparatorAndDisplayer
RECURSIVE AddSortKeys(_, _, _)
AddSortKeys(use_branch_address, sort_keys, acc) ==
  IF sort_keys = <<>> THEN acc
  ELSE LET key == Head(sort_keys)
       IN IF ~use_branch_address /\ key \in branch_sort_keys
          THEN [acc EXCEPT !.ok = FALSE, !.error = "branch key without -b"]
          ELSE IF KeyCompareFunction(key) = ""
          THEN [acc EXCEPT !.ok = FALSE, !.error = "unknown sort key"]
          ELSE AddSortKeys(use_branch_address, Tail(sort_keys),
                           [acc EXCEPT !.comparator = Append(@, KeyCompareFunction(key)),
                                       !.displayer = Append(@, KeyDisplayHeader(key))])

\* a sort comparator that looks at the period before the total period
SortComparatorPeriodFirst(print_callgraph, comparator) ==
  <<"ComparePeriod", "CompareTotalPeriod">>
  \o (IF print_callgraph THEN <<"CompareCallGraphDuplicated">> ELSE <<>>)
  \o comparator

\* a sort comparator without the comparator of the sort keys
SortComparatorWithoutKeys(print_callgraph, comparator) ==
  <<"CompareTotalPeriod">>
  \o (IF print_callgraph THEN <<"CompareCallGraphDuplicated">> ELSE <<>>)
  \o <<"ComparePeriod">>

\* the sort comparator of BuildSampleComparatorAndDisplayer: total period,
\* period, then the comparator the samples are aggregated by
SortComparator(print_callgraph, comparator) ==
  <<"CompareTotalPeriod">>
  \o (IF print_callgraph THEN <<"CompareCallGraphDuplicated">> ELSE <<>>)
  \o <<"ComparePeriod">> \o comparator

\* the call graph displayer BuildSampleComparatorAndDisplayer adds: none
\* without -g or without the sort key symbol; with the sort key vaddr_in_file
\* a default-constructed ReportCmdCallgraphDisplayerWithVaddrInFile (the
\* defaults of CallgraphDisplayer, library), else a ReportCmdCallgraphDisplayer
\* made of callgraph_max_stack_, callgraph_percent_limit_ and brief_callgraph_
CallgraphDisplayer(o, sort_keys) ==
  IF ~o.print_callgraph \/ ~SeqContains(sort_keys, "symbol") THEN NoCallgraphDisplayer
  ELSE IF SeqContains(sort_keys, "vaddr_in_file")
  THEN [class |-> "ReportCmdCallgraphDisplayerWithVaddrInFile", max_stack |-> UINT32_MAX,
        percent_limit |-> 0, brief_callgraph |-> FALSE]
  ELSE [class |-> "ReportCmdCallgraphDisplayer", max_stack |-> o.callgraph_max_stack,
        percent_limit |-> o.callgraph_percent_limit, brief_callgraph |-> o.brief_callgraph]

\* ReportCommand::BuildSampleComparatorAndDisplayer: o are the members set so far
BuildSampleComparatorAndDisplayer(o, print_sample_count, sort_keys) ==
  LET first == IF o.accumulate_callchain THEN <<"Children", "Self">> ELSE <<"Overhead">>
      count == IF print_sample_count THEN <<"Sample">> ELSE <<>>
      keys == AddSortKeys(o.use_branch_address, sort_keys,
                          [ok |-> TRUE, error |-> "", comparator |-> <<>>,
                           displayer |-> first \o count])
      sort_comparator == SortComparator(o.print_callgraph, keys.comparator)
  IN IF ~keys.ok THEN [ok |-> FALSE, error |-> keys.error, opt |-> o]
     ELSE [ok |-> TRUE, error |-> "",
           opt |-> [o EXCEPT !.comparator = keys.comparator,
                             !.displayer = keys.displayer,
                             !.callgraph_displayer = CallgraphDisplayer(o, sort_keys),
                             !.sort_comparator = sort_comparator]]

\* ReportCommand::ReportCommand: the members before ParseOptions
InitOpt ==
  [use_branch_address |-> FALSE, accumulate_callchain |-> FALSE,
   print_callgraph |-> FALSE, callgraph_show_callee |-> FALSE,
   cpu_filter |-> {}, pid_filter |-> {}, tid_filter |-> {}, comm_filter |-> {},
   dso_filter |-> {}, symbol_filter |-> {},
   comparator |-> <<>>, sort_comparator |-> <<>>, displayer |-> <<>>,
   callgraph_max_stack |-> UINT32_MAX, callgraph_percent_limit |-> 0,
   brief_callgraph |-> TRUE, callgraph_displayer |-> NoCallgraphDisplayer]

\* call chains accumulated whatever the command line
AccumulateCallchainAlways(a) == TRUE

\* accumulate_callchain_ after ParseOptions: --children, or -g
AccumulateCallchain(a) == a.children \/ a.g # "none"

\* ReportCommand::ParseOptions on the command line a
ParseOptionsResult(a) ==
  IF a.bad_value THEN [ok |-> FALSE, error |-> "bad option value", opt |-> InitOpt]
  ELSE IF a.g \notin {"", "none", "caller", "callee"}
  THEN [ok |-> FALSE, error |-> "unknown argument with -g", opt |-> InitOpt]
  ELSE LET o == [InitOpt EXCEPT
                   !.use_branch_address = a.b,
                   !.accumulate_callchain = AccumulateCallchain(a),
                   !.print_callgraph = a.g # "none",
                   !.callgraph_show_callee = (a.g = "callee"),
                   !.brief_callgraph = ~a.full_callgraph,
                   !.callgraph_max_stack = a.max_stack,
                   !.callgraph_percent_limit = a.percent_limit,
                   !.cpu_filter = a.cpus, !.pid_filter = a.pids, !.tid_filter = a.tids,
                   !.comm_filter = a.comms, !.dso_filter = a.dsos,
                   !.symbol_filter = a.symbols]
       IN BuildSampleComparatorAndDisplayer(o, a.n, a.sort)

\* the options ReadSampleTreeFromRecordFile hands to CreateSampleTreeBuilder
BuilderOptions ==
  [comparator |-> opt.comparator,
   cpu_filter |-> opt.cpu_filter, pid_filter |-> opt.pid_filter,
   tid_filter |-> opt.tid_filter, comm_filter |-> opt.comm_filter,
   dso_filter |-> opt.dso_filter, symbol_filter |-> opt.symbol_filter,
   use_branch_address |-> opt.use_branch_address,
   accumulate_callchain |-> opt.accumulate_callchain,
   build_callchain |-> opt.print_callgraph,
   use_caller_as_callchain_root |-> ~opt.callgraph_show_callee,
   trace_offcpu |-> trace_offcpu]

(***************************************************************************)
(* Inputs: command lines and record files.                                 *)
(***************************************************************************)
NoFilterArgs ==
  [b |-> FALSE, children |-> FALSE, g |-> "none", n |-> FALSE, sort |-> DefaultSortKeys,
   cpus |-> {}, pids |-> {}, tids |-> {}, comms |-> {}, dsos |-> {}, symbols |-> {},
   bad_value |-> FALSE,
   full_callgraph |-> FALSE, max_stack |-> UINT32_MAX, percent_limit |-> 0]

\* --children and -g in every combination, and -b
ModeArgs ==
  {[NoFilterArgs EXCEPT !.children = c, !.g = g] :
     c \in BOOLEAN, g \in {"none", "", "caller", "callee"}}
  \cup {[NoFilterArgs EXCEPT !.b = TRUE, !.children = TRUE]}

\* --sort lists
SortArgs ==
  {[NoFilterArgs EXCEPT !.children = TRUE, !.sort = <<"symbol">>],
   [NoFilterArgs EXCEPT !.g = "caller", !.sort = <<"pid", "vaddr_in_file">>],
   [NoFilterArgs EXCEPT !.b = TRUE,
                        !.sort = <<"dso_from", "symbol_from", "dso_to", "symbol_to">>],
   [NoFilterArgs EXCEPT !.sort = <<"dso", "symbol_from">>],
   [NoFilterArgs EXCEPT !.sort = <<"symbol", "bogus">>]}

\* allowlists
FilterArgs ==
  {[NoFilterArgs EXCEPT !.pids = {2}],
   [NoFilterArgs EXCEPT !.g = "caller", !.comms = {"app"}, !.cpus = {0, 1}],
   [NoFilterArgs EXCEPT !.g = "caller", !.symbols = {"g"}, !.n = TRUE],
   [NoFilterArgs EXCEPT !.b = TRUE, !.dsos = {"a.so"}, !.tids = {1}]}

\* command lines ParseOptions rejects
BadArgs ==
  {[NoFilterArgs EXCEPT !.bad_value = TRUE], [NoFilterArgs EXCEPT !.g = "bogus"]}

EventAttr(name, type, config, branch_stack) ==
  [name |-> name, type |-> type, config |-> config, branch_stack |-> branch_stack]

PlainFile ==
  [readable |-> TRUE, data_ok |-> TRUE, trace_offcpu |-> "absent", sampled |-> {1, 2},
   arch_supported |-> TRUE, tracing_data |-> "absent",
   attrs |-> <<EventAttr("cpu-cycles", "hardware", 0, TRUE),
               EventAttr("unknown", "tracepoint", 2, TRUE)>>]

NoBranchFile ==
  [PlainFile EXCEPT !.attrs = <<EventAttr("cpu-cycles", "hardware", 0, TRUE),
                                EventAttr("cpu-clock", "software", 0, FALSE)>>,
                    !.trace_offcpu = "false"]

OffCpuFile ==
  [PlainFile EXCEPT !.attrs = <<EventAttr("cpu-clock", "software", 0, TRUE),
                                EventAttr("sched:sched_switch", "tracepoint", 1, TRUE),
                                EventAttr("cpu-cycles", "hardware", 0, TRUE)>>,
                    !.trace_offcpu = "true"]

OffCpuNoSchedFile == [PlainFile EXCEPT !.trace_offcpu = "true"]

\* an off-CPU file with two attributes named sched:sched_switch
OffCpuTwoSchedFile ==
  [OffCpuFile EXCEPT !.attrs = <<EventAttr("cpu-clock", "software", 0, TRUE),
                                 EventAttr("sched:sched_switch", "tracepoint", 1, TRUE),
                                 EventAttr("sched:sched_switch", "tracepoint", 2, TRUE)>>,
                     !.sampled = {2, 3}]

UnreadableFile == [PlainFile EXCEPT !.readable = FALSE]

CorruptFile == [PlainFile EXCEPT !.data_ok = FALSE]

\* a file of an architecture GetArchType does not know
BadArchFile == [PlainFile EXCEPT !.arch_supported = FALSE]

\* files with a tracing data feature section, readable or not
TracedFile == [PlainFile EXCEPT !.tracing_data = "present"]

BadTracingFile == [PlainFile EXCEPT !.tracing_data = "unreadable"]

\* command lines used on an off-CPU file
OffCpuArgs ==
  {NoFilterArgs, [NoFilterArgs EXCEPT !.g = "caller"],
   [NoFilterArgs EXCEPT !.b = TRUE, !.tids = {1}]}

\* the runs considered: a command line and a record file
Runs ==
  {<<a, f>> : a \in ModeArgs \cup SortArgs \cup FilterArgs \cup BadArgs, f \in {PlainFile}}
  \cup {<<a, f>> : a \in OffCpuArgs, f \in {OffCpuFile}}
  \cup {<<a, f>> : a \in {NoFilterArgs, [NoFilterArgs EXCEPT !.b = TRUE]},
                   f \in {NoBranchFile, UnreadableFile}}
  \cup {<<a, f>> : a \in {NoFilterArgs},
                   f \in {OffCpuNoSchedFile, OffCpuTwoSchedFile, CorruptFile, BadArchFile,
                          TracedFile, BadTracingFile}}

\* what a sample record carries besides its attribute, event count and time
Shape(tid, ip, callchain, branch_stack) ==
  [tid |-> tid, ip |-> ip, callchain |-> callchain, branch_stack |-> branch_stack]

BranchItem(from, to) == [from |-> from, to |-> to, flags |-> 0]

Shapes ==
  {Shape(1, 1, <<1, 3>>, <<BranchItem(3, 1)>>),
   Shape(1, 2, <<3, 4, 5>>, <<BranchItem(1, 3), BranchItem(3, 2)>>),
   Shape(2, 3, <<3, 1, 3>>, <<BranchItem(4, 1)>>)}

OffCpuShapes == {k \in Shapes : k.ip \in {1, 3}}

SampleRecord(attr, k, period, time) ==
  [type |-> "sample", attr |-> attr, pid |-> k.tid, tid |-> k.tid, cpu |-> k.tid - 1,
   ip |-> k.ip, period |-> period, time |-> time, callchain |-> k.callchain,
   branch_stack |-> k.branch_stack, has_branch_stack |-> event_attrs[attr].branch_stack]

\* the sample records the decoder can yield next, of the attributes the file
\* has samples of: the records of a file without off-CPU tracing are in time
\* order, those of an off-CPU file count one event
SampleRecords ==
  IF file.trace_offcpu = "true"
  THEN {SampleRecord(a, k, 1, t) : a \in file.sampled, k \in OffCpuShapes, t \in 1..MaxTime}
  ELSE {SampleRecord(a, k, p, nrecords + 1) :
          a \in file.sampled, k \in Shapes, p \in 1..MaxPeriod}

CommRecords == {[type |-> "comm", pid |-> 1, tid |-> 1, comm |-> "app"]}

TracingDataRecords ==
  IF file.trace_offcpu = "true" THEN {}
  ELSE {[type |-> "tracing_data", event_name |-> "sched:sched_waking"]}

Records == SampleRecords \cup CommRecords \cup TracingDataRecords

\* the records read from the file at most
RecordLimit == IF file.trace_offcpu = "true" THEN MaxOffCpuRecords ELSE MaxRecords

(***************************************************************************)
(* ReportCommand: reading the record file.                                 *)
(***************************************************************************)
\* thread_tree_.Update(record) (library): a comm record renames its thread
ThreadTreeUpdate(tt, record) ==
  IF record.type = "comm" THEN [tt EXCEPT ![record.tid] = record.comm] ELSE tt

\* ReportCommand::ProcessTracingData: the tracepoint attributes take the name
\* the tracing data gives their id
ProcessTracingData(attrs, data) ==
  [i \in 1..Len(attrs) |->
     IF attrs[i].type = "tracepoint" THEN [attrs[i] EXCEPT !.name = data.event_name]
     ELSE attrs[i]]

\* a sample record handed to the builder of every attribute
SampleDeliveriesEveryBuilder(attr_id) == [i \in 1..Len(event_attrs) |-> i]

\* a broadcast that does not skip the builder of sched:sched_switch
SampleDeliveriesToAll(attr_id) ==
  IF ~trace_offcpu THEN <<attr_id>>
  ELSE IF attr_id = sched_switch_attr_id
       THEN [i \in 1..Len(event_attrs) |-> i]
       ELSE <<attr_id>>

\* the builders a sample record of attribute attr_id is handed to, in order:
\* ProcessRecord and ProcessSampleRecordInTraceOffCpuMode
SampleDeliveries(attr_id) ==
  IF ~trace_offcpu THEN <<attr_id>>
  ELSE IF attr_id = sched_switch_attr_id
       THEN SelectSeq([i \in 1..Len(event_attrs) |-> i],
                      LAMBDA i : i # sched_switch_attr_id)
       ELSE <<attr_id>>

\* the calls of ReportCmdProcessSampleRecord on the builders of ids
RECURSIVE DeliverSample(_, _, _, _, _)
DeliverSample(o, tt, builders, ids, r) ==
  IF ids = <<>> THEN builders
  ELSE DeliverSample(o, tt,
         [builders EXCEPT ![Head(ids)] =
            IF trace_offcpu THEN ReportCmdProcessSampleRecord(o, tt, @, r)
            ELSE ReportCmdProcessSampleRecordRef(o, tt, @, r)],
         Tail(ids), r)

\* the state ProcessRecord leaves: tt the thread tree after the update, ids the
\* builders handed the record, builders the builders after that
ProcessRecordDone(record, tt, ids, builders) ==
  /\ thread_tree' = tt
  /\ sample_tree_builder' = builders
  /\ event_attrs' = IF record.type = "tracing_data"
                    THEN ProcessTracingData(event_attrs, record)
                    ELSE event_attrs
  /\ pc' = IF \E i \in 1..Len(builders) : builders[i].check_failed
           THEN "aborted" ELSE "ingest"
  /\ last' = [type |-> record.type, record |-> record, delivered |-> ids]

ProcessRecordOn(record, tt, ids) ==
  ProcessRecordDone(record, tt, ids,
                    DeliverSample(BuilderOptions, tt, sample_tree_builder, ids, record))

\* SampleTreeSorter::Sort (library): insertion sort by the sort comparator
RECURSIVE InsertSorted(_, _, _)
InsertSorted(cmp, sorted, e) ==
  IF sorted = <<>> THEN <<e>>
  ELSE IF Compare(cmp, e, Head(sorted)) < 0 THEN <<e>> \o sorted
  ELSE <<Head(sorted)>> \o InsertSorted(cmp, Tail(sorted), e)

RECURSIVE SortSamples(_, _)
SortSamples(cmp, samples) ==
  IF samples = <<>> THEN <<>>
  ELSE InsertSorted(cmp, SortSamples(cmp, SubSeq(samples, 1, Len(samples) - 1)),
                    samples[Len(samples)])

NoLast == [type |-> "none"]

\* ReportCommand::ParseOptions
ParseOptions ==
  /\ pc = "start"
  /\ LET res == ParseOptionsResult(args)
     IN /\ opt' = res.opt
        /\ pc' = IF res.ok THEN "parsed" ELSE "failed"
  /\ UNCHANGED <<args, file, event_attrs, trace_offcpu, sched_switch_attr_id,
                 thread_tree, sample_tree_builder, sample_tree, report, nrecords, last>>

\* RecordFileReader::CreateInstance in ReportCommand::Run
CreateInstance ==
  /\ pc = "parsed"
  /\ pc' = IF file.readable THEN "opened" ELSE "failed"
  /\ UNCHANGED <<args, file, opt, event_attrs, trace_offcpu, sched_switch_attr_id,
                 thread_tree, sample_tree_builder, sample_tree, report, nrecords, last>>

\* ReportCommand::ReadMetaInfoFromRecordFile
ReadMetaInfoFromRecordFile ==
  /\ pc = "opened"
  /\ trace_offcpu' = IF file.trace_offcpu = "absent" THEN trace_offcpu
                     ELSE file.trace_offcpu = "true"
  /\ pc' = "meta"
  /\ UNCHANGED <<args, file, opt, event_attrs, sched_switch_attr_id,
                 thread_tree, sample_tree_builder, sample_tree, report, nrecords, last>>

\* the last attribute named sched:sched_switch, Len + 1 if there is none
LastSchedSwitch(attrs) ==
  LET named == {i \in 1..Len(attrs) : attrs[i].name = "sched:sched_switch"}
  IN IF named = {} THEN Len(attrs) + 1 ELSE CHOOSE i \in named : \A j \in named : i >= j

\* the first attribute named sched:sched_switch, Len + 1 if there is none
FirstSchedSwitch(attrs) ==
  LET named == {i \in 1..Len(attrs) : attrs[i].name = "sched:sched_switch"}
  IN IF named = {} THEN Len(attrs) + 1 ELSE CHOOSE i \in named : \A j \in named : i <= j

\* a branch stack check that looks at the first attribute only
ReadEventAttrFromRecordFileChecksFirstAttr ==
  /\ pc = "meta"
  /\ event_attrs' = file.attrs
  /\ IF opt.use_branch_address /\ ~file.attrs[1].branch_stack
     THEN pc' = "failed" /\ UNCHANGED sched_switch_attr_id
     ELSE IF trace_offcpu /\ FirstSchedSwitch(file.attrs) = Len(file.attrs) + 1
     THEN pc' = "aborted" /\ UNCHANGED sched_switch_attr_id
     ELSE /\ pc' = "attrs"
          /\ sched_switch_attr_id' = IF trace_offcpu THEN FirstSchedSwitch(file.attrs)
                                     ELSE sched_switch_attr_id
  /\ UNCHANGED <<args, file, opt, trace_offcpu, thread_tree, sample_tree_builder,
                 sample_tree, report, nrecords, last>>

\* ReportCommand::ReadEventAttrFromRecordFile; the CHECK_NE aborts the run
ReadEventAttrFromRecordFile ==
  /\ pc = "meta"
  /\ event_attrs' = file.attrs
  /\ LET has_branch_stack == \A i \in 1..Len(file.attrs) : file.attrs[i].branch_stack
         i == FirstSchedSwitch(file.attrs)
     IN IF opt.use_branch_address /\ ~has_branch_stack
        THEN pc' = "failed" /\ UNCHANGED sched_switch_attr_id
        ELSE IF trace_offcpu /\ i = Len(file.attrs) + 1
        THEN pc' = "aborted" /\ UNCHANGED sched_switch_attr_id
        ELSE /\ pc' = "attrs"
             /\ sched_switch_attr_id' = IF trace_offcpu THEN i ELSE sched_switch_attr_id
  /\ UNCHANGED <<args, file, opt, trace_offcpu, thread_tree, sample_tree_builder,
                 sample_tree, report, nrecords, last>>

\* a run that goes on to read the samples whatever the feature sections are
ReadFeaturesFromRecordFileIgnoresFailure ==
  /\ pc = "attrs"
  /\ pc' = "features"
  /\ UNCHANGED <<args, file, opt, event_attrs, trace_offcpu, sched_switch_attr_id,
                 thread_tree, sample_tree_builder, sample_tree, report, nrecords, last>>

\* ReportCommand::ReadFeaturesFromRecordFile: false for an unsupported
\* architecture and for a tracing data section that cannot be read
ReadFeaturesFromRecordFile ==
  /\ pc = "attrs"
  /\ pc' = IF ~file.arch_supported \/ file.tracing_data = "unreadable"
           THEN "failed" ELSE "features"
  /\ event_attrs' = IF file.arch_supported /\ file.tracing_data = "present"
                    THEN ProcessTracingData(event_attrs, [event_name |-> "sched:sched_waking"])
                    ELSE event_attrs
  /\ UNCHANGED <<args, file, opt, trace_offcpu, sched_switch_attr_id,
                 thread_tree, sample_tree_builder, sample_tree, report, nrecords, last>>

\* ReportCommand::ReadSampleTreeFromRecordFile up to ReadDataSection: one
\* builder for each event attribute
CreateBuilders ==
  /\ pc = "features"
  /\ sample_tree_builder' =
       [i \in 1..Len(event_attrs) |->
          [CreateSampleTreeBuilder(BuilderOptions) EXCEPT
             !.event_name = event_attrs[i].name]]
  /\ pc' = "ingest"
  /\ UNCHANGED <<args, file, opt, event_attrs, trace_offcpu, sched_switch_attr_id,
                 thread_tree, sample_tree, report, nrecords, last>>

\* ReportCommand::ProcessRecord on the next record of the data section
ProcessRecord ==
  /\ pc = "ingest"
  /\ nrecords < RecordLimit
  /\ \E record \in Records :
       ProcessRecordOn(record, ThreadTreeUpdate(thread_tree, record),
                       IF record.type = "sample" THEN SampleDeliveries(record.attr)
                       ELSE <<>>)
  /\ nrecords' = nrecords + 1
  /\ UNCHANGED <<args, file, opt, trace_offcpu, sched_switch_attr_id, sample_tree, report>>

\* ReadDataSection fails, at the first record or a later one:
\* ReadSampleTreeFromRecordFile returns false
ReadDataSectionFails ==
  /\ pc = "ingest"
  /\ ~file.data_ok
  /\ pc' = "failed"
  /\ UNCHANGED <<args, file, opt, event_attrs, trace_offcpu, sched_switch_attr_id,
                 thread_tree, sample_tree_builder, sample_tree, report, nrecords, last>>

\* ReportCommand::ReadSampleTreeFromRecordFile after the last record: the
\* sample tree of every builder, sorted
FinishSampleTrees ==
  /\ pc = "ingest"
  /\ file.data_ok
  /\ sample_tree' =
       [i \in 1..Len(sample_tree_builder) |->
          [GetSampleTree(sample_tree_builder[i]) EXCEPT
             !.samples = SortSamples(opt.sort_comparator, @)]]
  /\ pc' = "ingested"
  /\ last' = NoLast
  /\ UNCHANGED <<args, file, opt, event_attrs, trace_offcpu, sched_switch_attr_id,
                 thread_tree, sample_tree_builder, report, nrecords>>

\* the event block PrintReport writes for attribute i
EventBlock(i) ==
  [attr |-> i, event |-> event_attrs[i].name,
   samples |-> sample_tree[i].total_samples,
   error_callchains |-> sample_tree[i].total_error_callchains,
   period_prefix |-> IF trace_offcpu THEN "Time in ns" ELSE "Event count",
   total_period |-> sample_tree[i].total_period,
   rows |-> sample_tree[i].samples]

\* a report loop that skips no attribute
PrintedAttrsAll == [i \in 1..Len(event_attrs) |-> i]

\* the attributes PrintReport writes a block for, in the order of its loop
PrintedAttrs ==
  SelectSeq([i \in 1..Len(event_attrs) |-> i],
            LAMBDA i : ~(trace_offcpu /\ i = sched_switch_attr_id))

EventBlocks(ids) == [j \in 1..Len(ids) |-> EventBlock(ids[j])]

\* ReportCommand::PrintReport
PrintReport ==
  /\ pc = "ingested"
  /\ report' = EventBlocks(PrintedAttrs)
  /\ pc' = "done"
  /\ UNCHANGED <<args, file, opt, event_attrs, trace_offcpu, sched_switch_attr_id,
                 thread_tree, sample_tree_builder, sample_tree, nrecords, last>>

Init ==
  /\ pc = "start"
  /\ \E run \in Runs : args = run[1] /\ file = run[2]
  /\ opt = InitOpt
  /\ event_attrs = <<>>
  /\ trace_offcpu = FALSE
  /\ sched_switch_attr_id = 1
  /\ thread_tree = [t \in Tids |-> "sh"]
  /\ sample_tree_builder = <<>>
  /\ sample_tree = <<>>
  /\ report = <<>>
  /\ nrecords = 0
  /\ last = NoLast

Next ==
  \/ ParseOptions
  \/ CreateInstance
  \/ ReadMetaInfoFromRecordFile
  \/ ReadEventAttrFromRecordFile
  \/ ReadFeaturesFromRecordFile
  \/ CreateBuilders
  \/ ProcessRecord
  \/ ReadDataSectionFails
  \/ FinishSampleTrees
  \/ PrintReport

Spec == Init /\ [][Next]_vars

(***************************************************************************)
(* FilterSample as a function of the six allowlists and the sample: the     *)
(* allowlists are those SetFilters copied from the options.                *)
(***************************************************************************)
\* the allowlists of the options
IntLists == {{}, {1}, {1, 2}}
CpuLists == {{}, {0}, {0, 1}}
CommLists == SUBSET {"sh", "app"}
DsoLists == SUBSET {"a.so", "b.so"}
SymbolLists == SUBSET {"f", "g"}

\* the samples FilterSample is asked about
FilterSamples ==
  {SampleEntry(1, 1, 0, 1, cpu, [pid |-> pid, tid |-> tid, comm |-> comm], map, symbol, 1) :
     cpu \in {0, 1}, pid \in {1, 2}, tid \in {1, 2}, comm \in {"sh", "app"},
     map \in {"a.so", "b.so"}, symbol \in {"f", "g"}}

FilterInit ==
  /\ pc = "filter"
  /\ args = NoFilterArgs
  /\ file = PlainFile
  /\ \E cpus \in CpuLists, pids \in IntLists, tids \in IntLists, comms \in CommLists,
        dsos \in DsoLists, symbols \in SymbolLists :
       opt = [InitOpt EXCEPT !.cpu_filter = cpus, !.pid_filter = pids, !.tid_filter = tids,
                             !.comm_filter = comms, !.dso_filter = dsos,
                             !.symbol_filter = symbols]
  /\ event_attrs = <<>>
  /\ trace_offcpu = FALSE
  /\ sched_switch_attr_id = 1
  /\ thread_tree = [t \in Tids |-> "sh"]
  /\ sample_tree_builder = <<>>
  /\ sample_tree = <<>>
  /\ report = <<>>
  /\ nrecords = 0
  /\ last = NoLast

\* FilterSample of a builder with the filters of the options, on one sample
ApplyFilterSample ==
  /\ pc = "filter"
  /\ \E sample \in FilterSamples :
       last' = [type |-> "filter", sample |-> sample,
                accepted |-> FilterSample(BuilderOptions, sample)]
  /\ pc' = "filtered"
  /\ UNCHANGED <<args, file, opt, event_attrs, trace_offcpu, sched_switch_attr_id,
                 thread_tree, sample_tree_builder, sample_tree, report, nrecords>>

FilterNext == ApplyFilterSample

SpecFilter == FilterInit /\ [][FilterNext]_vars

(***************************************************************************)
(* ParseOptions as a function of -b and the --sort list.                   *)
(***************************************************************************)
\* the keys of the --sort lists considered: every sort key and an unknown one
SortKeyNames ==
  {"pid", "tid", "comm", "dso", "symbol", "vaddr_in_file",
   "dso_from", "dso_to", "symbol_from", "symbol_to", "bogus"}

\* the --sort lists considered: one key or two
SortLists == {<<k>> : k \in SortKeyNames} \cup {<<k1, k2>> : k1, k2 \in SortKeyNames}

OptionsInit ==
  /\ pc = "start"
  /\ \E b \in BOOLEAN, sort \in SortLists : args = [NoFilterArgs EXCEPT !.b = b, !.sort = sort]
  /\ file = PlainFile
  /\ opt = InitOpt
  /\ event_attrs = <<>>
  /\ trace_offcpu = FALSE
  /\ sched_switch_attr_id = 1
  /\ thread_tree = [t \in Tids |-> "sh"]
  /\ sample_tree_builder = <<>>
  /\ sample_tree = <<>>
  /\ report = <<>>
  /\ nrecords = 0
  /\ last = NoLast

OptionsNext == ParseOptions

SpecOptions == OptionsInit /\ [][OptionsNext]_vars

(***************************************************************************)
(* Two builders of one event on the same records: the first with the       *)
(* allowlists of the command line args, the second with those of the       *)
(* command line last.args, which differs from args in one allowlist.       *)
(***************************************************************************)
\* an allowlist and what it is replaced by: a subset of it, or any list when it
\* is empty
ListPairs(values) ==
  {p \in (SUBSET values) \X (SUBSET values) : p[1] # p[2] /\ (p[2] \subseteq p[1] \/ p[1] = {})}

\* the command lines a and the command lines with one allowlist of a replaced
ReplacedArgs(a) ==
  {<<[a EXCEPT !.cpus = p[1]], [a EXCEPT !.cpus = p[2]]>> : p \in ListPairs({0, 1})}
  \cup {<<[a EXCEPT !.symbols = p[1]], [a EXCEPT !.symbols = p[2]]>> :
          p \in ListPairs({"f", "g"})}

ReplacedArgsMore(a) ==
  {<<[a EXCEPT !.pids = p[1]], [a EXCEPT !.pids = p[2]]>> : p \in ListPairs({1, 2})}
  \cup {<<[a EXCEPT !.tids = p[1]], [a EXCEPT !.tids = p[2]]>> : p \in ListPairs({1, 2})}
  \cup {<<[a EXCEPT !.comms = p[1]], [a EXCEPT !.comms = p[2]]>> :
          p \in ListPairs({"sh", "app"})}
  \cup {<<[a EXCEPT !.dsos = p[1]], [a EXCEPT !.dsos = p[2]]>> :
          p \in ListPairs({"a.so", "b.so"})}

\* the runs of the two builders: the two command lines and the record file
PairedRuns ==
  {<<p[1], p[2], [PlainFile EXCEPT !.sampled = {1}]>> :
     p \in UNION {ReplacedArgs(a) \cup ReplacedArgsMore(a) :
                    a \in {NoFilterArgs, [NoFilterArgs EXCEPT !.b = TRUE],
                           [NoFilterArgs EXCEPT !.g = "caller"]}}}
  \cup {<<p[1], p[2], [OffCpuFile EXCEPT !.sampled = {1}]>> : p \in ReplacedArgs(NoFilterArgs)}

\* the builder options of the second builder
ReplacedBuilderOptions ==
  [BuilderOptions EXCEPT !.cpu_filter = last.args.cpus, !.pid_filter = last.args.pids,
                         !.tid_filter = last.args.tids, !.comm_filter = last.args.comms,
                         !.dso_filter = last.args.dsos, !.symbol_filter = last.args.symbols]

PairedInit ==
  /\ pc = "paired"
  /\ \E run \in PairedRuns :
       /\ args = run[1]
       /\ last = [type |-> "replaced", args |-> run[2]]
       /\ file = run[3]
       /\ opt = ParseOptionsResult(run[1]).opt
       /\ event_attrs = run[3].attrs
       /\ trace_offcpu = (run[3].trace_offcpu = "true")
       /\ sample_tree_builder = <<NewBuilder(run[3].trace_offcpu = "true"),
                                  NewBuilder(run[3].trace_offcpu = "true")>>
  /\ sched_switch_attr_id = 2
  /\ thread_tree = [t \in Tids |-> "sh"]
  /\ sample_tree = <<>>
  /\ report = <<>>
  /\ nrecords = 0

\* the two builders after sample record r
PairedBuilders(tt, r) ==
  IF r.type # "sample" THEN sample_tree_builder
  ELSE IF trace_offcpu
  THEN <<ReportCmdProcessSampleRecord(BuilderOptions, tt, sample_tree_builder[1], r),
         ReportCmdProcessSampleRecord(ReplacedBuilderOptions, tt, sample_tree_builder[2], r)>>
  ELSE <<ReportCmdProcessSampleRecordRef(BuilderOptions, tt, sample_tree_builder[1], r),
         ReportCmdProcessSampleRecordRef(ReplacedBuilderOptions, tt, sample_tree_builder[2], r)>>

\* the next record of the file, processed for both builders
ProcessRecordInBoth ==
  /\ pc = "paired"
  /\ nrecords < RecordLimit
  /\ \E record \in SampleRecords \cup CommRecords :
       /\ thread_tree' = ThreadTreeUpdate(thread_tree, record)
       /\ sample_tree_builder' = PairedBuilders(ThreadTreeUpdate(thread_tree, record), record)
  /\ nrecords' = nrecords + 1
  /\ UNCHANGED <<pc, args, file, opt, event_attrs, trace_offcpu, sched_switch_attr_id,
                 sample_tree, report, last>>

PairedNext == ProcessRecordInBoth

SpecPaired == PairedInit /\ [][PairedNext]_vars

(***************************************************************************)
(* The sort comparator as a function of -g, the --sort list and two        *)
(* entries: sample_tree holds the two entries, last the result.            *)
(***************************************************************************)
\* the entries compared: with and without period, accumulated period and
\* duplicate mark, of two threads and two symbols
SortedEntries ==
  {[SampleEntry(1, p, a, 1, 0, [pid |-> 1, tid |-> t, comm |-> "sh"], "a.so", sym, 1)
      EXCEPT !.duplicated = d] :
     p \in 0..1, a \in 0..1, d \in BOOLEAN, t \in Tids, sym \in {"f", "g"}}

\* the command lines: without and with -g, --sort of the two keys in either
\* order and of one
SortRuns ==
  {[NoFilterArgs EXCEPT !.g = g, !.sort = sort] :
     g \in {"none", "caller"},
     sort \in {<<"tid", "symbol">>, <<"symbol", "tid">>, <<"symbol">>}}

SortInit ==
  /\ pc = "start"
  /\ args \in SortRuns
  /\ \E e1, e2 \in SortedEntries :
       sample_tree = <<[samples |-> <<e1, e2>>, total_samples |-> 0, total_period |-> 0,
                        total_error_callchains |-> 0, event_name |-> ""]>>
  /\ file = PlainFile
  /\ opt = InitOpt
  /\ event_attrs = <<>>
  /\ trace_offcpu = FALSE
  /\ sched_switch_attr_id = 1
  /\ thread_tree = [t \in Tids |-> "sh"]
  /\ sample_tree_builder = <<>>
  /\ report = <<>>
  /\ nrecords = 0
  /\ last = NoLast

\* the sorter's call of the sort comparator on the two entries
CompareSamples ==
  /\ pc = "parsed"
  /\ last' = [type |-> "compared",
              result |-> Compare(opt.sort_comparator, sample_tree[1].samples[1],
                                 sample_tree[1].samples[2])]
  /\ pc' = "compared"
  /\ UNCHANGED <<args, file, opt, event_attrs, trace_offcpu, sched_switch_attr_id,
                 thread_tree, sample_tree_builder, sample_tree, report, nrecords>>

SortNext == ParseOptions \/ CompareSamples

SpecSort == SortInit /\ [][SortNext]_vars

(***************************************************************************)
(* ParseOptions as a function of -g, --sort, --max-stack, --percent-limit  *)
(* and --full-callgraph.                                                   *)
(***************************************************************************)
\* the --sort lists considered: one or two of the keys without -b
CallgraphSortLists ==
  {<<k>> : k \in {"pid", "symbol", "vaddr_in_file"}}
  \cup {<<k1, k2>> : k1, k2 \in {"pid", "symbol", "vaddr_in_file"}}

CallgraphInit ==
  /\ pc = "start"
  /\ \E g \in {"none", "", "caller", "callee"}, sort \in CallgraphSortLists,
        max_stack \in {1, UINT32_MAX}, percent_limit \in {0, 5}, full \in BOOLEAN :
       args = [NoFilterArgs EXCEPT !.g = g, !.sort = sort, !.max_stack = max_stack,
                                   !.percent_limit = percent_limit,
                                   !.full_callgraph = full]
  /\ file = PlainFile
  /\ opt = InitOpt
  /\ event_attrs = <<>>
  /\ trace_offcpu = FALSE
  /\ sched_switch_attr_id = 1
  /\ thread_tree = [t \in Tids |-> "sh"]
  /\ sample_tree_builder = <<>>
  /\ sample_tree = <<>>
  /\ report = <<>>
  /\ nrecords = 0
  /\ last = NoLast

CallgraphNext == ParseOptions

SpecCallgraph == CallgraphInit /\ [][CallgraphNext]_vars

(***************************************************************************)
(* Properties.                                                             *)
(***************************************************************************)
\* the pipelines: the builders while records are read, the sample trees after
Pipelines == 1..Len(sample_tree_builder)

SumOfPeriod(samples) == SumSeq([i \in 1..Len(samples) |-> samples[i].period])

SumOfSampleCount(samples) == SumSeq([i \in 1..Len(samples) |-> samples[i].sample_count])

\* C1: in every pipeline, at every point of the ingestion and in the finished
\* sample tree, the periods of the entries add up to total_period
C1_PeriodsSumToTotalPeriod ==
  /\ \A i \in Pipelines :
       SumOfPeriod(sample_tree_builder[i].samples) = sample_tree_builder[i].total_period
  /\ \A i \in 1..Len(sample_tree) :
       SumOfPeriod(sample_tree[i].samples) = sample_tree[i].total_period

\* a pipeline that has merged two samples into one entry, holds a call chain
\* entry and a second plain entry
C1_Witness ==
  \E i \in Pipelines :
    /\ sample_tree_builder[i].total_period >= 3
    /\ \E k \in 1..Len(sample_tree_builder[i].samples) :
         sample_tree_builder[i].samples[k].sample_count = 2
    /\ \E k \in 1..Len(sample_tree_builder[i].samples) :
         sample_tree_builder[i].samples[k].sample_count = 0

\* C2: in every pipeline the sample counts of the entries add up to
\* total_samples, which is the number of samples (without -b) or branch items
\* (with -b) that passed the filter; call chain entries do not change it
C2_SampleCountsSumToTotalSamples ==
  /\ \A i \in Pipelines :
       /\ SumOfSampleCount(sample_tree_builder[i].samples) =
            sample_tree_builder[i].total_samples
       /\ sample_tree_builder[i].total_samples = sample_tree_builder[i].folded
  /\ \A i \in 1..Len(sample_tree) :
       SumOfSampleCount(sample_tree[i].samples) = sample_tree[i].total_samples

\* a pipeline that folded two samples and holds call chain entries besides
C2_Witness ==
  \E i \in Pipelines :
    /\ sample_tree_builder[i].folded = 2
    /\ Len(sample_tree_builder[i].samples) >= 3
    /\ \E k \in 1..Len(sample_tree_builder[i].samples) :
         /\ sample_tree_builder[i].samples[k].sample_count = 0
         /\ sample_tree_builder[i].samples[k].accumulated_period > 0

\* the field of an entry a sort key of the command line names
KeyField(key, e) ==
  CASE key = "pid" -> e.pid
    [] key = "tid" -> e.tid
    [] key = "comm" -> e.thread_comm
    [] key \in {"dso", "dso_to"} -> e.map
    [] key \in {"symbol", "symbol_to"} -> e.symbol
    [] key = "vaddr_in_file" -> e.vaddr_in_file
    [] key = "dso_from" -> e.branch_from.map
    [] key = "symbol_from" -> e.branch_from.symbol

EqualOnSortKeys(e1, e2) ==
  \A k \in 1..Len(args.sort) : KeyField(args.sort[k], e1) = KeyField(args.sort[k], e2)

\* C3: no pipeline holds two entries that agree on every sort key of the
\* command line
C3_NoTwoEntriesEqualOnSortKeys ==
  \A i \in Pipelines :
    \A k1, k2 \in 1..Len(sample_tree_builder[i].samples) :
      k1 # k2 => ~EqualOnSortKeys(sample_tree_builder[i].samples[k1],
                                  sample_tree_builder[i].samples[k2])

\* two samples at different addresses of one symbol were merged into one entry,
\* the only entry of the pipeline
C3_Witness ==
  /\ nrecords = 2
  /\ last.type = "sample"
  /\ last.record.ip = 2
  /\ \E i \in Pipelines :
       /\ Len(sample_tree_builder[i].samples) = 1
       /\ sample_tree_builder[i].samples[1].sample_count = 2
       /\ sample_tree_builder[i].samples[1].vaddr_in_file = 1

Allows(list, x) == list = {} \/ x \in list

\* C4: FilterSample accepts a sample if and only if each of the six allowlists
\* (cpu, pid, tid, comm, dso, symbol) is empty or contains the sample's attribute
C4_FilterSampleIffAllowlists ==
  last.type = "filter" =>
    (last.accepted <=>
       /\ Allows(opt.cpu_filter, last.sample.cpu)
       /\ Allows(opt.pid_filter, last.sample.pid)
       /\ Allows(opt.tid_filter, last.sample.tid)
       /\ Allows(opt.comm_filter, last.sample.thread_comm)
       /\ Allows(opt.dso_filter, last.sample.map)
       /\ Allows(opt.symbol_filter, last.sample.symbol))

\* a sample accepted under empty and non-empty allowlists
C4_Witness ==
  /\ last.type = "filter"
  /\ last.accepted
  /\ opt.cpu_filter = {}
  /\ opt.comm_filter = {}
  /\ opt.pid_filter = {1}
  /\ opt.symbol_filter = {"g"}
  /\ opt.dso_filter = {"a.so", "b.so"}

\* the allowlists of the command line applied to the attributes of a record
\* whose sampled or branch target address is ip
RecordPasses(r, ip) ==
  /\ Allows(args.cpus, r.cpu)
  /\ Allows(args.pids, r.pid)
  /\ Allows(args.tids, r.tid)
  /\ Allows(args.comms, thread_tree[r.tid])
  /\ Allows(args.dsos, FindMap(FindThreadOrNew(thread_tree, r.pid, r.tid), ip))
  /\ Allows(args.symbols,
            FindSymbol(FindMap(FindThreadOrNew(thread_tree, r.pid, r.tid), ip), ip).symbol)

\* the filter rejects the sample of record r (with -b: every branch item of it)
RecordRejected(r) ==
  IF args.b /\ r.has_branch_stack
  THEN \A k \in 1..Len(r.branch_stack) : ~RecordPasses(r, r.branch_stack[k].to)
  ELSE ~RecordPasses(r, r.ip)

\* pipeline i folds a record when record r is handed to it
Folds(i, r) ==
  sample_tree_builder[i].timestamp => r.tid \in DOMAIN sample_tree_builder[i].next_sample_cache

\* the record pipeline i folds when record r is handed to it
FoldedRecord(i, r) ==
  IF sample_tree_builder[i].timestamp THEN sample_tree_builder[i].next_sample_cache[r.tid]
  ELSE r

Aggregation(b) ==
  [samples |-> b.samples, total_samples |-> b.total_samples,
   total_period |-> b.total_period, total_error_callchains |-> b.total_error_callchains]

C5_Step ==
  last'.type = "sample" =>
    \A i \in Pipelines :
      (/\ SeqContains(last'.delivered, i)
       /\ Folds(i, last'.record)
       /\ RecordRejected(FoldedRecord(i, last'.record)))
      => Aggregation(sample_tree_builder'[i]) = Aggregation(sample_tree_builder[i])

\* C5: processing a sample the filter rejects leaves the entries of the pipeline
\* (no insertion, no merge, no call chain entry, no accumulated cost) and its
\* total_samples, total_period and total_error_callchains unchanged
C5_RejectedSampleChangesNothing == [][C5_Step]_vars

\* a rejected sample with a call chain was processed after an accepted one
C5_Witness ==
  /\ last.type = "sample"
  /\ args.symbols = {"g"}
  /\ opt.accumulate_callchain
  /\ last.record.ip = 1
  /\ Len(last.record.callchain) >= 2
  /\ Len(last.delivered) = 1
  /\ sample_tree_builder[last.record.attr].total_samples = 1
  /\ nrecords = 2

\* the period of a record of time prev emitted by a record of time next
TimeDelta(prev, next) == IF next - prev > 0 THEN next - prev ELSE 1

C6_Step ==
  (last'.type = "sample" /\ trace_offcpu /\ ~args.b) =>
    \A i \in Pipelines :
      (/\ SeqContains(last'.delivered, i)
       /\ last'.record.tid \in DOMAIN sample_tree_builder[i].next_sample_cache)
      => /\ sample_tree_builder'[i].total_samples = sample_tree_builder[i].total_samples + 1
         /\ sample_tree_builder'[i].total_period - sample_tree_builder[i].total_period =
              TimeDelta(sample_tree_builder[i].next_sample_cache[last'.record.tid].time,
                        last'.record.time)
         /\ sample_tree_builder'[i].total_period - sample_tree_builder[i].total_period >= 1

RECURSIVE Count(_, _)
Count(ids, i) ==
  IF ids = <<>> THEN 0 ELSE (IF Head(ids) = i THEN 1 ELSE 0) + Count(Tail(ids), i)

\* pipeline i is to receive the sample record r of an off-CPU file
Receives(i, r) ==
  IF r.attr = sched_switch_attr_id THEN i # sched_switch_attr_id ELSE i = r.attr

C7_Step ==
  /\ (trace_offcpu /\ Len(sample_tree_builder') > 0) =>
       sample_tree_builder'[sched_switch_attr_id] =
         [NewBuilder(TRUE) EXCEPT !.event_name = "sched:sched_switch"]
  /\ (trace_offcpu /\ last'.type = "sample") =>
       \A i \in Pipelines :
         /\ Count(last'.delivered, i) = IF Receives(i, last'.record) THEN 1 ELSE 0
         /\ Receives(i, last'.record) =>
              /\ sample_tree_builder'[i].next_sample_cache[last'.record.tid] = last'.record
              /\ sample_tree_builder'[i].folded <=
                   sample_tree_builder[i].folded + Len(last'.record.branch_stack)
              /\ ~args.b => sample_tree_builder'[i].folded =
                              sample_tree_builder[i].folded
                              + (IF Folds(i, last'.record) THEN 1 ELSE 0)
         /\ ~Receives(i, last'.record) => sample_tree_builder'[i] = sample_tree_builder[i]

\* C7: in off-CPU mode a sample of sched:sched_switch is handed exactly once to
\* every other pipeline and never to the builder of sched:sched_switch, which
\* stays empty with total_samples 0 and total_period 0; a sample of another
\* attribute is handed to the pipeline of its attribute only
C7_OffCpuFanOut == [][C7_Step]_vars

\* a sched:sched_switch sample was handed to both other pipelines, which have
\* folded samples
C7_Witness ==
  /\ trace_offcpu
  /\ last.type = "sample"
  /\ last.record.attr = sched_switch_attr_id
  /\ sched_switch_attr_id = 2
  /\ last.delivered = <<1, 3>>
  /\ sample_tree_builder[1].total_samples >= 1
  /\ sample_tree_builder[3].total_samples >= 1
  /\ sample_tree_builder[1] # sample_tree_builder[3]

\* the attributes the report is to have a block of
ReportedAttrs ==
  {i \in 1..Len(event_attrs) : ~(trace_offcpu /\ i = sched_switch_attr_id)}

\* C8: the report has exactly one event block (event name, Samples, period
\* total, table) for each event attribute, in the order of the attribute
\* indices, except that in off-CPU mode the block of sched:sched_switch is left
\* out; without off-CPU mode no block is left out
C8_OneBlockPerAttribute ==
  pc = "done" =>
    /\ {report[j].attr : j \in 1..Len(report)} = ReportedAttrs
    /\ \A j, k \in 1..Len(report) : j < k => report[j].attr < report[k].attr
    /\ ~trace_offcpu => Len(report) = Len(event_attrs)
    /\ \A j \in 1..Len(report) :
         /\ report[j].event = event_attrs[report[j].attr].name
         /\ report[j].samples = sample_tree[report[j].attr].total_samples
         /\ report[j].total_period = sample_tree[report[j].attr].total_period
         /\ report[j].rows = sample_tree[report[j].attr].samples

\* the report of an off-CPU file of three attributes: blocks of the first and
\* the third
C8_Witness ==
  /\ pc = "done"
  /\ trace_offcpu
  /\ Len(event_attrs) = 3
  /\ Len(report) = 2
  /\ report[1].attr = 1
  /\ report[2].attr = 3
  /\ report[1].samples >= 1

\* C9 as amended: accumulated_period holds only what the entry received as a
\* call chain entry of samples: an entry that was never stored or merged as a
\* call chain entry has accumulated_period 0, whatever its period
C9_AccumulatedOnlyFromCallChains ==
  \A i \in Pipelines :
    \A k \in 1..Len(sample_tree_builder[i].samples) :
      sample_tree_builder[i].samples[k].chain_hits = 0
        => sample_tree_builder[i].samples[k].accumulated_period = 0

\* with call chains accumulated: an entry of a sample that was never a call
\* chain entry, beside an entry that was one
C9_Witness ==
  /\ opt.accumulate_callchain
  /\ \E i \in Pipelines :
       /\ \E k \in 1..Len(sample_tree_builder[i].samples) :
            /\ sample_tree_builder[i].samples[k].chain_hits = 0
            /\ sample_tree_builder[i].samples[k].period = 2
            /\ sample_tree_builder[i].samples[k].accumulated_period = 0
       /\ \E k \in 1..Len(sample_tree_builder[i].samples) :
            /\ sample_tree_builder[i].samples[k].chain_hits > 0
            /\ sample_tree_builder[i].samples[k].accumulated_period = 2

\* C9 as stated: accumulated_period >= period for every entry, with equality
\* if and only if the entry never appeared in a call chain
C9_AccumulatedAtLeastPeriod ==
  \A i \in Pipelines :
    \A k \in 1..Len(sample_tree_builder[i].samples) :
      /\ sample_tree_builder[i].samples[k].accumulated_period >=
           sample_tree_builder[i].samples[k].period
      /\ sample_tree_builder[i].samples[k].accumulated_period =
           sample_tree_builder[i].samples[k].period
           <=> sample_tree_builder[i].samples[k].chain_hits = 0

AllAccumulatedPeriodsZero ==
  \A i \in Pipelines :
    \A k \in 1..Len(sample_tree_builder[i].samples) :
      sample_tree_builder[i].samples[k].accumulated_period = 0

\* C10 as amended: when neither --children nor -g is given, every entry of
\* every pipeline has accumulated_period 0
C10_NoChildrenNoCallGraphNoAccumulation ==
  (~args.children /\ args.g = "none") => AllAccumulatedPeriodsZero

\* without --children and -g, samples with call chains were folded
C10_Witness ==
  /\ ~args.children
  /\ args.g = "none"
  /\ ~args.b
  /\ last.type = "sample"
  /\ Len(last.record.callchain) >= 2
  /\ nrecords = 2
  /\ \E i \in Pipelines : sample_tree_builder[i].total_samples = 2

\* C10 as stated: when --children is not given, every entry has
\* accumulated_period 0, whatever the other options
C10_NoChildrenNoAccumulation == ~args.children => AllAccumulatedPeriodsZero

\* the frames of the call chain of record r: the first ip is left out when it
\* is the sampled ip
Frames(r) ==
  IF r.callchain # <<>> /\ Head(r.callchain) = r.ip THEN Tail(r.callchain) ELSE r.callchain

FrameIsUnknown(r, ip) == FindMap(FindThreadOrNew(thread_tree, r.pid, r.tid), ip) = UnknownDso

FrameSymbol(r, ip) ==
  FindSymbol(FindMap(FindThreadOrNew(thread_tree, r.pid, r.tid), ip), ip).symbol

\* the frames of r in front of its first frame of the unknown dso
KnownPrefix(r) ==
  {j \in 1..Len(Frames(r)) : \A k \in 1..j : ~FrameIsUnknown(r, Frames(r)[k])}

HasUnknownFrame(r) == \E j \in 1..Len(Frames(r)) : FrameIsUnknown(r, Frames(r)[j])

\* entry k of the builder after the step is new or got a call chain entry
EntryTouched(before, after, k) ==
  \/ k > Len(before.samples)
  \/ after.samples[k].chain_hits > before.samples[k].chain_hits

\* the call chain of the accepted sample of record r was walked from builder
\* before to builder after
C11_Walk(before, after, r) ==
  /\ after.total_error_callchains =
       before.total_error_callchains + (IF HasUnknownFrame(r) THEN 1 ELSE 0)
  /\ \A k \in 1..Len(after.samples) :
       /\ after.samples[k].map # UnknownDso
       /\ after.samples[k].symbol # "unknown"
       /\ EntryTouched(before, after, k) =>
            \/ after.samples[k].symbol = FrameSymbol(r, r.ip)
            \/ \E j \in KnownPrefix(r) : after.samples[k].symbol = FrameSymbol(r, Frames(r)[j])
  /\ \A j \in KnownPrefix(r) :
       \E k \in 1..Len(after.samples) :
         /\ after.samples[k].symbol = FrameSymbol(r, Frames(r)[j])
         /\ after.samples[k].chain_hits > 0 \/ after.samples[k].symbol = FrameSymbol(r, r.ip)

C11_Step ==
  (last'.type = "sample" /\ opt.accumulate_callchain /\ ~args.b) =>
    /\ pc' = "ingest"
    /\ \A i \in Pipelines :
         (/\ SeqContains(last'.delivered, i)
          /\ Folds(i, last'.record)
          /\ ~RecordRejected(FoldedRecord(i, last'.record)))
         => C11_Walk(sample_tree_builder[i], sample_tree_builder'[i],
                     FoldedRecord(i, last'.record))

\* C11: a call chain frame of the unknown dso gets no entry, adds exactly one to
\* total_error_callchains and ends the walk of that chain (for frames known,
\* unknown, known only the first frame gets a call chain entry and the counter
\* grows by one), the ingestion goes on, and no entry of the unknown dso is in
\* any pipeline
C11_UnknownFrameEndsCallChain == [][C11_Step]_vars

\* the chain g, unknown, h of one sample of f was walked: g has a call chain
\* entry, h has no entry, one error call chain is counted
C11_Witness ==
  /\ last.type = "sample"
  /\ opt.accumulate_callchain
  /\ ~args.b
  /\ nrecords = 1
  /\ last.record.callchain = <<3, 4, 5>>
  /\ sample_tree_builder[last.record.attr].total_error_callchains = 1
  /\ Len(sample_tree_builder[last.record.attr].samples) = 2
  /\ sample_tree_builder[last.record.attr].samples[2].symbol = "g"
  /\ sample_tree_builder[last.record.attr].samples[2].chain_hits = 1

BranchKeys == {"dso_from", "dso_to", "symbol_from", "symbol_to"}

KnownKeys == {"pid", "tid", "comm", "dso", "symbol", "vaddr_in_file"} \cup BranchKeys

HasBranchKey == \E k \in 1..Len(args.sort) : args.sort[k] \in BranchKeys

\* C12: a --sort list with a branch key (dso_from, dso_to, symbol_from,
\* symbol_to) and no unknown key is accepted if and only if -b is given;
\* without -b ParseOptions fails on every list with a branch key
C12_BranchKeyAcceptedIffBranchMode ==
  (pc # "start" /\ HasBranchKey) =>
    /\ ~args.b => pc = "failed"
    /\ (\A k \in 1..Len(args.sort) : args.sort[k] \in KnownKeys) =>
         (pc = "parsed" <=> args.b)

\* a list of two branch keys was accepted with -b
C12_Witness ==
  /\ pc = "parsed"
  /\ args.b
  /\ args.sort = <<"symbol_from", "dso_to">>
  /\ opt.comparator = <<"CompareSymbolFrom", "CompareDso">>

\* the command line has an error: a bad option value, an unknown sort key or a
\* branch key without -b
OptionError ==
  \/ args.bad_value
  \/ args.g \notin {"none", "", "caller", "callee"}
  \/ \E k \in 1..Len(args.sort) : args.sort[k] \notin KnownKeys
  \/ ~args.b /\ HasBranchKey

\* the record file has an error: it cannot be opened, its attributes lack the
\* branch stack -b needs, its features or its data section cannot be read
InputError ==
  \/ ~file.readable
  \/ args.b /\ \E i \in 1..Len(file.attrs) : ~file.attrs[i].branch_stack
  \/ ~file.arch_supported
  \/ file.tracing_data = "unreadable"
  \/ ~file.data_ok

\* C13: in a run with a configuration or input error the report phase is never
\* entered and nothing is written, the run ends only by returning failure, and
\* an error of the command line is reported before the record file is opened
C13_ErrorRunsNeverReport ==
  /\ (OptionError \/ InputError) =>
       /\ pc \notin {"ingested", "done"}
       /\ report = <<>>
       /\ sample_tree = <<>>
       /\ ~ENABLED Next => pc = "failed"
  /\ OptionError => pc \in {"start", "failed"}
  /\ pc = "failed" => ~ENABLED Next

\* a run that read a record of a file whose data section is broken, and failed
C13_Witness ==
  /\ ~file.data_ok
  /\ pc = "failed"
  /\ nrecords = 1
  /\ \E i \in Pipelines : sample_tree_builder[i].total_samples = 1
  /\ report = <<>>

\* an event attribute of the file is without the branch stack sample type
LacksBranchStack == \E i \in 1..Len(file.attrs) : ~file.attrs[i].branch_stack

\* the file has an error other than the missing branch stack
OtherInputError ==
  \/ ~file.readable
  \/ ~file.arch_supported
  \/ file.tracing_data = "unreadable"
  \/ ~file.data_ok

\* C14: with -b the run fails before any record is ingested unless every event
\* attribute of the file has the branch stack sample type; without -b a missing
\* branch stack never makes the run fail
C14_BranchModeNeedsBranchStack ==
  /\ (args.b /\ LacksBranchStack) =>
       /\ nrecords = 0
       /\ sample_tree_builder = <<>>
       /\ pc \in {"start", "parsed", "opened", "meta", "failed"}
       /\ ~ENABLED Next => pc = "failed"
  /\ (~OptionError /\ ~OtherInputError /\ (args.b => ~LacksBranchStack)) => pc # "failed"

\* a run with -b on a file with an attribute without branch stack has failed
\* when it read the attributes
C14_Witness ==
  /\ args.b
  /\ LacksBranchStack
  /\ file.attrs[1].branch_stack
  /\ pc = "failed"
  /\ event_attrs = file.attrs
  /\ nrecords = 0

\* C15: in a sorted sample tree every entry is strictly in front of the next
\* under the sort comparator, so no two entries compare equal, and the rows are
\* the same when the entries are sorted from the reverse insertion order
C15_SortedRowsAreUnique ==
  pc \in {"ingested", "done"} =>
    \A i \in 1..Len(sample_tree) :
      /\ \A j, k \in 1..Len(sample_tree[i].samples) :
           j < k => Compare(opt.sort_comparator, sample_tree[i].samples[j],
                            sample_tree[i].samples[k]) < 0
      /\ SortSamples(opt.sort_comparator, Reverse(sample_tree_builder[i].samples)) =
           sample_tree[i].samples

\* a sorted tree of two entries of the same period and accumulated period,
\* which were inserted in the other order
C15_Witness ==
  /\ pc = "ingested"
  /\ \E i \in 1..Len(sample_tree) :
       /\ Len(sample_tree[i].samples) = 2
       /\ sample_tree[i].samples[1].period = sample_tree[i].samples[2].period
       /\ sample_tree[i].samples[1].accumulated_period =
            sample_tree[i].samples[2].accumulated_period
       /\ sample_tree[i].samples[1] = sample_tree_builder[i].samples[2]
       /\ sample_tree[i].samples[2] = sample_tree_builder[i].samples[1]

\* allowlist t is allowlist l made tighter: a subset of l that is not empty, or
\* any list when l is empty
Tighter(l, t) == (t \subseteq l /\ t # {}) \/ l = {}

\* allowlist t is a subset of allowlist l, or l is empty
SubsetOrFromEmpty(l, t) == t \subseteq l \/ l = {}

SecondNotAboveFirst ==
  /\ sample_tree_builder[2].total_samples <= sample_tree_builder[1].total_samples
  /\ sample_tree_builder[2].total_period <= sample_tree_builder[1].total_period

\* C16 as amended: on the same records and options, replacing one allowlist by
\* a non-empty subset of itself, or an empty allowlist by a non-empty one,
\* never increases total_samples or total_period
C16_TighterAllowlistNeverIncreases ==
  (/\ last.type = "replaced"
   /\ Tighter(args.cpus, last.args.cpus)
   /\ Tighter(args.pids, last.args.pids)
   /\ Tighter(args.tids, last.args.tids)
   /\ Tighter(args.comms, last.args.comms)
   /\ Tighter(args.dsos, last.args.dsos)
   /\ Tighter(args.symbols, last.args.symbols))
  => SecondNotAboveFirst

\* two records, of which the tighter symbol allowlist let pass one
C16_Witness ==
  /\ last.type = "replaced"
  /\ args.symbols = {"f", "g"}
  /\ last.args.symbols = {"g"}
  /\ nrecords = 2
  /\ sample_tree_builder[1].total_samples = 2
  /\ sample_tree_builder[2].total_samples = 1
  /\ sample_tree_builder[2].total_period < sample_tree_builder[1].total_period

\* C16 as stated: replacing one allowlist by a subset of itself, or an empty
\* allowlist by a non-empty one, never increases total_samples or total_period
C16_SubsetAllowlistNeverIncreases ==
  (/\ last.type = "replaced"
   /\ SubsetOrFromEmpty(args.cpus, last.args.cpus)
   /\ SubsetOrFromEmpty(args.pids, last.args.pids)
   /\ SubsetOrFromEmpty(args.tids, last.args.tids)
   /\ SubsetOrFromEmpty(args.comms, last.args.comms)
   /\ SubsetOrFromEmpty(args.dsos, last.args.dsos)
   /\ SubsetOrFromEmpty(args.symbols, last.args.symbols))
  => SecondNotAboveFirst

\* the fields of an entry a merge does not add to
OtherFields(e) ==
  <<e.time, e.cpu, e.pid, e.tid, e.thread_comm, e.map, e.symbol, e.vaddr_in_file,
    e.branch_from>>

\* the period of the samples pipeline i makes of the record it folds when
\* record r is handed to it
NewSamplePeriod(i, r) ==
  IF args.b /\ FoldedRecord(i, r).has_branch_stack THEN FoldedRecord(i, r).period
  ELSE IF sample_tree_builder[i].timestamp
  THEN TimeDelta(FoldedRecord(i, r).time, r.time)
  ELSE FoldedRecord(i, r).period

\* entry after is entry before with samples of period p merged into it: the
\* samples of the records add p to period and 1 to sample_count each, the call
\* chain samples add p to accumulated_period each
MergedInto(before, after, p) ==
  /\ OtherFields(after) = OtherFields(before)
  /\ after.sample_count >= before.sample_count
  /\ after.period = before.period + (after.sample_count - before.sample_count) * p
  /\ after.chain_hits >= before.chain_hits
  /\ after.accumulated_period =
       before.accumulated_period + (after.chain_hits - before.chain_hits) * p

\* record r repeats the record before it and that one made the only entry
RepeatsOnlyRecord(r) ==
  /\ last.type = "sample"
  /\ nrecords = 1
  /\ ~trace_offcpu /\ ~args.b
  /\ r = [last.record EXCEPT !.time = r.time]
  /\ Len(sample_tree_builder[r.attr].samples) = 1

C17_Step ==
  (last'.type = "sample" /\ nrecords' = nrecords + 1) =>
    /\ \A i \in Pipelines :
         /\ Len(sample_tree_builder'[i].samples) >= Len(sample_tree_builder[i].samples)
         /\ \A k \in 1..Len(sample_tree_builder[i].samples) :
              IF SeqContains(last'.delivered, i) /\ Folds(i, last'.record)
              THEN MergedInto(sample_tree_builder[i].samples[k],
                              sample_tree_builder'[i].samples[k],
                              NewSamplePeriod(i, last'.record))
              ELSE sample_tree_builder'[i].samples[k] = sample_tree_builder[i].samples[k]
    /\ RepeatsOnlyRecord(last'.record) =>
         /\ Len(sample_tree_builder'[last'.record.attr].samples) = 1
         /\ sample_tree_builder'[last'.record.attr].samples[1].period =
              2 * sample_tree_builder[last'.record.attr].samples[1].period
         /\ sample_tree_builder'[last'.record.attr].samples[1].sample_count = 2

\* C17: a sample merged into an equal entry adds its period, accumulated_period
\* and sample_count to the entry and leaves time, cpu, pid, tid, thread name,
\* map, symbol, vaddr_in_file and the branch-from fields of the entry as they
\* were; the same raw sample twice gives one entry with doubled period and
\* sample_count
C17_MergeAddsMeasuresOnly == [][C17_Step]_vars

\* the second record was merged into the entry of the first, which it repeats
\* at a later time
C17_Witness ==
  /\ pc = "ingest"
  /\ nrecords = 2
  /\ last.type = "sample"
  /\ ~trace_offcpu /\ ~args.b
  /\ last.record.period = 2
  /\ last.record.time = 2
  /\ Len(sample_tree_builder[last.record.attr].samples) = 1
  /\ sample_tree_builder[last.record.attr].samples[1].period = 4
  /\ sample_tree_builder[last.record.attr].samples[1].sample_count = 2
  /\ sample_tree_builder[last.record.attr].samples[1].time = 1

\* entry k of a builder was stored, or had a sample merged into it, from builder
\* before to builder after
FoldedInto(before, after, k) ==
  \/ k > Len(before.samples)
  \/ after.samples[k].sample_count > before.samples[k].sample_count
  \/ after.samples[k].chain_hits > before.samples[k].chain_hits

C18_FirstStep ==
  (last'.type = "sample" /\ nrecords' = nrecords + 1) =>
    \A i \in Pipelines :
      (SeqContains(last'.delivered, i) /\ Folds(i, last'.record)) =>
        \A k \in 1..Len(sample_tree_builder'[i].samples) :
          sample_tree_builder'[i].samples[k].time =
            IF k <= Len(sample_tree_builder[i].samples)
            THEN sample_tree_builder[i].samples[k].time
            ELSE FoldedRecord(i, last'.record).time

C18_LatestStep ==
  (last'.type = "sample" /\ nrecords' = nrecords + 1) =>
    \A i \in Pipelines :
      (SeqContains(last'.delivered, i) /\ Folds(i, last'.record)) =>
        \A k \in 1..Len(sample_tree_builder'[i].samples) :
          FoldedInto(sample_tree_builder[i], sample_tree_builder'[i], k) =>
            sample_tree_builder'[i].samples[k].time = FoldedRecord(i, last'.record).time

SampleCountOfTid(b, tid) ==
  SumSeq([k \in 1..Len(b.samples) |->
            IF b.samples[k].tid = tid THEN b.samples[k].sample_count ELSE 0])

\* the cache of a time-delta builder after it was handed record r
CacheAfter(b, r) ==
  [t \in DOMAIN b.next_sample_cache \cup {r.tid} |->
     IF t = r.tid THEN r ELSE b.next_sample_cache[t]]

\* time-delta builder before was handed record r of a tid it holds a record
\* prev of, and became builder after: prev is the one sample folded
FoldsStored(before, after, prev, r) ==
  /\ after.total_samples = before.total_samples + 1
  /\ after.total_period = before.total_period + TimeDelta(prev.time, r.time)
  /\ SampleCountOfTid(after, prev.tid) = SampleCountOfTid(before, prev.tid) + 1
  /\ \E k \in 1..Len(after.samples) :
       /\ after.samples[k].tid = prev.tid
       /\ after.samples[k].symbol =
            FindSymbol(FindMap(FindThreadOrNew(thread_tree, prev.pid, prev.tid), prev.ip),
                       prev.ip).symbol
       /\ \/ /\ k = Len(before.samples) + 1
             /\ after.samples[k].time = prev.time
             /\ after.samples[k].sample_count = 1
          \/ /\ k <= Len(before.samples)
             /\ after.samples[k].sample_count = before.samples[k].sample_count + 1

\* what a time-delta builder holds: a record of every tid it was handed records
\* of, and of n records of a tid n - 1 folded (with -b the entries count the
\* branches of the folded records, not the records)
OneRecordPending(b) ==
  /\ DOMAIN b.next_sample_cache = DOMAIN b.received
  /\ \A t \in DOMAIN b.received :
       /\ b.received[t] >= 1
       /\ ~args.b => SampleCountOfTid(b, t) = b.received[t] - 1

C19_Step ==
  trace_offcpu =>
    /\ (last'.type = "sample" /\ nrecords' = nrecords + 1) =>
         \A i \in Pipelines :
           IF ~SeqContains(last'.delivered, i)
           THEN sample_tree_builder'[i] = sample_tree_builder[i]
           ELSE /\ sample_tree_builder'[i].next_sample_cache =
                     CacheAfter(sample_tree_builder[i], last'.record)
                /\ IF last'.record.tid \notin DOMAIN sample_tree_builder[i].next_sample_cache
                   THEN /\ Aggregation(sample_tree_builder'[i]) =
                             Aggregation(sample_tree_builder[i])
                        /\ sample_tree_builder'[i].received[last'.record.tid] = 1
                   ELSE ~args.b =>
                          FoldsStored(sample_tree_builder[i], sample_tree_builder'[i],
                                      sample_tree_builder[i].next_sample_cache[last'.record.tid],
                                      last'.record)
    /\ \A i \in 1..Len(sample_tree_builder') : OneRecordPending(sample_tree_builder'[i])
    /\ \A i \in 1..Len(sample_tree') :
         /\ sample_tree'[i].total_samples = sample_tree_builder'[i].total_samples
         /\ \A t \in DOMAIN sample_tree_builder'[i].received :
              ~args.b =>
                SampleCountOfTid(sample_tree'[i], t) = sample_tree_builder'[i].received[t] - 1

\* C19: a time-delta builder stores the first record of a tid and folds nothing;
\* every later record of the tid makes it fold the stored record and store the
\* new one, so that the cache holds the latest record of every tid seen, n - 1
\* of n records of a tid are folded, and the last stays pending, also in the
\* sample tree made at the end of the input
C19_TimeDeltaBuilderFoldsAllButLast == [][C19_Step]_vars

\* the sample trees were made after three records of tid 1, the first two folded
\* and the third still in the cache
C19_Witness ==
  /\ pc = "ingested"
  /\ trace_offcpu /\ ~args.b
  /\ \E i \in 1..Len(sample_tree) :
       /\ 1 \in DOMAIN sample_tree_builder[i].received
       /\ sample_tree_builder[i].received[1] = 3
       /\ sample_tree[i].total_samples = 2
       /\ sample_tree_builder[i].next_sample_cache[1].time = 2
       /\ DOMAIN sample_tree_builder[i].next_sample_cache = {1}

\* period and sample_count of entry k of a builder, 0 when there is no entry k
PeriodAt(b, k) == IF k <= Len(b.samples) THEN b.samples[k].period ELSE 0

SampleCountAt(b, k) == IF k <= Len(b.samples) THEN b.samples[k].sample_count ELSE 0

\* every sample folded into an entry from builder before to builder after
\* contributed period p
ContributedPeriod(before, after, p) ==
  \A k \in 1..Len(after.samples) :
    PeriodAt(after, k) - PeriodAt(before, k) =
      (SampleCountAt(after, k) - SampleCountAt(before, k)) * p

C20_ModeStep ==
  (trace_offcpu /\ last'.type = "sample" /\ nrecords' = nrecords + 1) =>
    \A i \in Pipelines :
      (SeqContains(last'.delivered, i) /\ Folds(i, last'.record)) =>
        ContributedPeriod(sample_tree_builder[i], sample_tree_builder'[i],
                          IF args.b THEN FoldedRecord(i, last'.record).period
                          ELSE TimeDelta(FoldedRecord(i, last'.record).time,
                                         last'.record.time))

C20_AlwaysStep ==
  (trace_offcpu /\ last'.type = "sample" /\ nrecords' = nrecords + 1) =>
    \A i \in Pipelines :
      (SeqContains(last'.delivered, i) /\ Folds(i, last'.record)) =>
        ContributedPeriod(sample_tree_builder[i], sample_tree_builder'[i],
                          TimeDelta(FoldedRecord(i, last'.record).time, last'.record.time))

SchedSwitchAttrs == {i \in 1..Len(file.attrs) : file.attrs[i].name = "sched:sched_switch"}

\* C21: a record file that declares trace_offcpu = true without an attribute
\* named sched:sched_switch ends the run during setup, before a builder is made,
\* a record ingested or anything reported; with such an attribute, the driver
\* is the first attribute of that name
C21_OffCpuNeedsSchedSwitch ==
  /\ (file.trace_offcpu = "true" /\ SchedSwitchAttrs = {}) =>
       /\ pc \in {"start", "parsed", "opened", "meta", "aborted", "failed"}
       /\ nrecords = 0
       /\ sample_tree_builder = <<>>
       /\ sample_tree = <<>>
       /\ report = <<>>
       /\ ~ENABLED Next => pc \in {"aborted", "failed"}
  /\ (trace_offcpu /\ pc \in {"attrs", "features", "ingest", "ingested", "done"}) =>
       /\ sched_switch_attr_id \in SchedSwitchAttrs
       /\ \A i \in SchedSwitchAttrs : sched_switch_attr_id <= i
  /\ pc = "aborted" => ~ENABLED Next

\* the run of an off-CPU file without sched:sched_switch has ended at its
\* attributes
C21_Witness ==
  /\ file.trace_offcpu = "true"
  /\ SchedSwitchAttrs = {}
  /\ trace_offcpu
  /\ pc = "aborted"
  /\ event_attrs = file.attrs
  /\ nrecords = 0

\* -1 when a comes first in descending order, 1 when b does, 0 when equal
Descending(a, b) == IF a > b THEN -1 ELSE IF a < b THEN 1 ELSE 0

\* -1 when a comes first in ascending order, 1 when b does, 0 when equal
Ascending(a, b) == IF a < b THEN -1 ELSE IF a > b THEN 1 ELSE 0

\* the order of two entries by one sort key
ByKey(key, e1, e2) ==
  IF key \in {"pid", "tid", "vaddr_in_file"}
  THEN Ascending(KeyField(key, e1), KeyField(key, e2))
  ELSE Ascending(NameRank(KeyField(key, e1)), NameRank(KeyField(key, e2)))

\* the components of the order of two entries: total period, duplicate mark
\* with a call graph, period, the sort keys as given
OrderComponents(e1, e2) ==
  <<Descending(e1.period + e1.accumulated_period, e2.period + e2.accumulated_period)>>
  \o (IF args.g # "none"
      THEN <<Ascending(IF e1.duplicated THEN 1 ELSE 0, IF e2.duplicated THEN 1 ELSE 0)>>
      ELSE <<>>)
  \o <<Descending(e1.period, e2.period)>>
  \o [k \in 1..Len(args.sort) |-> ByKey(args.sort[k], e1, e2)]

\* c is what the components decide: the first that is not 0, 0 if there is none
DecidedBy(components, c) ==
  \/ c = 0 /\ \A n \in 1..Len(components) : components[n] = 0
  \/ \E n \in 1..Len(components) :
       /\ components[n] = c
       /\ c # 0
       /\ \A m \in 1..(n - 1) : components[m] = 0

\* C22: the sort comparator orders two entries by total period descending,
\* then with call graph printing by the duplicate mark, then by period
\* descending, then by the sort keys in the order given, each component
\* deciding only when all before it compare equal
C22_SortComparatorOrder ==
  pc = "compared" =>
    DecidedBy(OrderComponents(sample_tree[1].samples[1], sample_tree[1].samples[2]),
              last.result)

\* with -g and --sort symbol,tid: two entries equal in total period and period,
\* the first not a duplicate and the second one, the second of the smaller
\* symbol; the duplicate mark decides
C22_Witness ==
  /\ pc = "compared"
  /\ args.g = "caller"
  /\ args.sort = <<"symbol", "tid">>
  /\ sample_tree[1].samples[1].period = sample_tree[1].samples[2].period
  /\ sample_tree[1].samples[1].accumulated_period = sample_tree[1].samples[2].accumulated_period
  /\ ~sample_tree[1].samples[1].duplicated
  /\ sample_tree[1].samples[2].duplicated
  /\ sample_tree[1].samples[1].symbol = "g"
  /\ sample_tree[1].samples[2].symbol = "f"
  /\ last.result = -1

\* the entry made of the sample of record r, and that made of the frame at ip
\* of its call chain
OwnEntry(r) ==
  SampleEntry(r.time, 0, 0, 1, r.cpu, FindThreadOrNew(thread_tree, r.pid, r.tid),
              FindMap(FindThreadOrNew(thread_tree, r.pid, r.tid), r.ip),
              FrameSymbol(r, r.ip),
              FindSymbol(FindMap(FindThreadOrNew(thread_tree, r.pid, r.tid), r.ip),
                         r.ip).vaddr_in_file)

FrameEntry(r, ip) ==
  SampleEntry(r.time, 0, 0, 0, r.cpu, FindThreadOrNew(thread_tree, r.pid, r.tid),
              FindMap(FindThreadOrNew(thread_tree, r.pid, r.tid), ip),
              FrameSymbol(r, ip),
              FindSymbol(FindMap(FindThreadOrNew(thread_tree, r.pid, r.tid), ip),
                         ip).vaddr_in_file)

AccumulatedAt(b, k) == IF k <= Len(b.samples) THEN b.samples[k].accumulated_period ELSE 0

\* from builder before to builder after, the entry of the frame at ip of the
\* call chain of record r was stored or merged with p more accumulated period
FrameAccumulated(before, after, r, ip, p) ==
  \E k \in 1..Len(after.samples) :
    /\ IsSameSample(opt.comparator, after.samples[k], FrameEntry(r, ip))
    /\ AccumulatedAt(after, k) = AccumulatedAt(before, k) + p

\* the frame at ip of record r is the function of the sample itself
IsOwnFrame(r, ip) == IsSameSample(opt.comparator, FrameEntry(r, ip), OwnEntry(r))

C23_PrefixStep ==
  (/\ last'.type = "sample" /\ nrecords' = nrecords + 1
   /\ opt.accumulate_callchain /\ ~args.b) =>
    \A i \in Pipelines :
      (/\ SeqContains(last'.delivered, i)
       /\ Folds(i, last'.record)
       /\ RecordPasses(FoldedRecord(i, last'.record), FoldedRecord(i, last'.record).ip))
      => \A j \in KnownPrefix(FoldedRecord(i, last'.record)) :
           ~IsOwnFrame(FoldedRecord(i, last'.record), Frames(FoldedRecord(i, last'.record))[j])
           => FrameAccumulated(sample_tree_builder[i], sample_tree_builder'[i],
                               FoldedRecord(i, last'.record),
                               Frames(FoldedRecord(i, last'.record))[j],
                               NewSamplePeriod(i, last'.record))

\* C23 as amended: the filter is applied to the sample only; once a sample is
\* accepted, every frame of its call chain in front of the first frame of the
\* unknown dso, other than frames of the sample's own entry, is stored or merged
\* with accumulated_period increased by the sample's period (once per entry),
\* whether or not the frame's dso and symbol are in the allowlists
C23_FilterNotAppliedToCallChain == [][C23_PrefixStep]_vars

\* with --symbol g, the sample of g called from f was accepted and f, which is
\* not in the allowlist, has a call chain entry with the period of the sample
C23_Witness ==
  /\ args.symbols = {"g"}
  /\ opt.accumulate_callchain
  /\ last.type = "sample"
  /\ nrecords = 1
  /\ last.record.period = 2
  /\ \E k \in 1..Len(sample_tree_builder[last.record.attr].samples) :
       /\ sample_tree_builder[last.record.attr].samples[k].symbol = "f"
       /\ sample_tree_builder[last.record.attr].samples[k].accumulated_period = 2
       /\ sample_tree_builder[last.record.attr].samples[k].period = 0
       /\ sample_tree_builder[last.record.attr].samples[k].chain_hits = 1

C23_EveryFrameStep ==
  (/\ last'.type = "sample" /\ nrecords' = nrecords + 1
   /\ opt.accumulate_callchain /\ ~args.b) =>
    \A i \in Pipelines :
      (/\ SeqContains(last'.delivered, i)
       /\ Folds(i, last'.record)
       /\ RecordPasses(FoldedRecord(i, last'.record), FoldedRecord(i, last'.record).ip))
      => \A j \in 1..Len(Frames(FoldedRecord(i, last'.record))) :
           ~FrameIsUnknown(FoldedRecord(i, last'.record),
                           Frames(FoldedRecord(i, last'.record))[j])
           => FrameAccumulated(sample_tree_builder[i], sample_tree_builder'[i],
                               FoldedRecord(i, last'.record),
                               Frames(FoldedRecord(i, last'.record))[j],
                               NewSamplePeriod(i, last'.record))

\* C23 as stated: once a sample is accepted, every frame of its call chain that
\* is of a known dso is stored or merged with accumulated_period increased by
\* the sample's period
C23_EveryKnownFrameAccumulated == [][C23_EveryFrameStep]_vars

\* C24 as stated: with -g and the sort key symbol, the call graph displayer
\* added has the --max-stack, --percent-limit and --full-callgraph of the
\* command line, whatever the other sort keys; without the sort key symbol no
\* call graph displayer is added
C24_CallgraphDisplayerHasUserLimits ==
  pc = "parsed" =>
    IF SeqContains(args.sort, "symbol")
    THEN args.g # "none" =>
           /\ opt.callgraph_displayer.class # ""
           /\ opt.callgraph_displayer.max_stack = args.max_stack
           /\ opt.callgraph_displayer.percent_limit = args.percent_limit
           /\ opt.callgraph_displayer.brief_callgraph = ~args.full_callgraph
    ELSE opt.callgraph_displayer = NoCallgraphDisplayer

C25_Step ==
  (~trace_offcpu /\ nrecords' = nrecords + 1) =>
    /\ thread_tree' = ThreadTreeUpdate(thread_tree, last'.record)
    /\ IF last'.type = "sample"
       THEN /\ last'.delivered = <<last'.record.attr>>
            /\ \A i \in Pipelines :
                 sample_tree_builder'[i] =
                   IF i = last'.record.attr
                   THEN ReportCmdProcessSampleRecordRef(BuilderOptions, thread_tree',
                                                        sample_tree_builder[i], last'.record)
                   ELSE sample_tree_builder[i]
       ELSE sample_tree_builder' = sample_tree_builder

\* C25: outside off-CPU mode a sample record changes only the pipeline of its
\* attribute index, every record updates the thread tree before it is handed
\* to a pipeline, and a record that is not a sample changes no pipeline
C25_SampleChangesOnlyItsPipeline == [][C25_Step]_vars

\* after a comm record, a sample of the second attribute was folded under the
\* new thread name while the first pipeline stayed empty
C25_Witness ==
  /\ ~trace_offcpu
  /\ pc = "ingest"
  /\ nrecords = 2
  /\ last.type = "sample"
  /\ last.record.attr = 2
  /\ last.record.tid = 1
  /\ thread_tree[1] = "app"
  /\ sample_tree_builder[1].samples = <<>>
  /\ Len(sample_tree_builder[2].samples) >= 1
  /\ sample_tree_builder[2].samples[1].thread_comm = "app"

\* the samples of builder b after record r, the sample folded by r being
\* symbolized against the thread tree tt
SamplesSymbolizedAgainst(tt, b, r) ==
  IF b.timestamp
  THEN ProcessSampleRecord(BuilderOptions, tt,
                           [b EXCEPT !.next_sample_cache[r.tid] = r],
                           b.next_sample_cache[r.tid]).samples
  ELSE ProcessSampleRecord(BuilderOptions, tt, b, r).samples

\* the thread tree made by the update records that precede the sample which
\* record r makes builder b fold
RegistryAtFoldedSample(b, r) ==
  IF b.timestamp THEN b.registry_at[r.tid] ELSE ThreadTreeUpdate(thread_tree, r)

C26_Step ==
  (nrecords' = nrecords + 1 /\ last'.type = "sample") =>
    \A k \in 1..Len(last'.delivered) :
      LET i == last'.delivered[k]
          b == sample_tree_builder[i]
          r == last'.record
      IN  (b.timestamp => r.tid \in DOMAIN b.next_sample_cache) =>
            sample_tree_builder'[i].samples =
              SamplesSymbolizedAgainst(RegistryAtFoldedSample(b, r), b, r)

\* C26: every folded sample is symbolized against the thread tree made by
\* exactly the update records that precede it in the record stream, also in
\* off-CPU mode, where it is folded when the next sample of its tid arrives
C26_SymbolizedAtOwnPosition == [][C26_Step]_vars

C26_EventCountStep == ~trace_offcpu => C26_Step

\* the same for the files that are not off-CPU
C26_EventCountSymbolizedAtOwnPosition == [][C26_EventCountStep]_vars

\* builder i is a TimestampSampleTreeBuilder
TimeDeltaBuilder(i) == sample_tree_builder[i].timestamp

\* the last record was handed to builder i
FedLast(i) ==
  /\ last.type = "sample"
  /\ \E k \in 1..Len(last.delivered) : last.delivered[k] = i

\* C27: the CHECK in TimestampSampleTreeBuilder::GetPeriod never fails, and a
\* time-delta builder exists only in off-CPU mode and gets every record through
\* next_sample_cache_, which holds the last record of each tid it was handed
C27_GetPeriodCheckNeverFails ==
  \A i \in Pipelines :
    /\ ~sample_tree_builder[i].check_failed
    /\ TimeDeltaBuilder(i) <=> trace_offcpu
    /\ TimeDeltaBuilder(i) =>
         DOMAIN sample_tree_builder[i].received = DOMAIN sample_tree_builder[i].next_sample_cache
    /\ (TimeDeltaBuilder(i) /\ FedLast(i)) =>
         /\ last.record.tid \in DOMAIN sample_tree_builder[i].next_sample_cache
         /\ sample_tree_builder[i].next_sample_cache[last.record.tid] = last.record

\* a time-delta builder has called GetPeriod for a cached record of tid 1 and
\* folded it, outside branch mode
C27_Witness ==
  /\ trace_offcpu
  /\ ~opt.use_branch_address
  /\ 1 \in Pipelines
  /\ TimeDeltaBuilder(1)
  /\ FedLast(1)
  /\ last.record.tid = 1
  /\ sample_tree_builder[1].received[1] = 2
  /\ sample_tree_builder[1].total_samples = 1

\* the Error Callchains line of a block is printed, and its percentage is
\* defined and at most 100
ErrorCallchainsPercentOk(block) ==
  block.error_callchains # 0 =>
    /\ block.samples # 0
    /\ block.error_callchains * 100 <= 100 * block.samples

\* C28: in every pipeline total_error_callchains <= total_samples, in the
\* builder, in its sample tree and in the printed block, so the Error
\* Callchains percentage has a divisor that is not 0 and is at most 100
C28_ErrorCallchainsAtMostSamples ==
  /\ \A i \in Pipelines :
       sample_tree_builder[i].total_error_callchains <= sample_tree_builder[i].total_samples
  /\ \A i \in 1..Len(sample_tree) :
       sample_tree[i].total_error_callchains <= sample_tree[i].total_samples
  /\ \A k \in 1..Len(report) : ErrorCallchainsPercentOk(report[k])

\* a block is printed in which both samples had a call chain with an unknown
\* frame: error call chains 2 of 2 samples
C28_Witness ==
  /\ pc = "done"
  /\ \E k \in 1..Len(report) :
       /\ report[k].error_callchains = 2
       /\ report[k].samples = 2

\* C29: at report time the event name kept in the sample tree of every
\* pipeline (the EventName column) is the name of its attribute printed in the
\* Event: line, also after tracing-data records of the data section have
\* renamed the tracepoint attributes
C29_TreeEventNameIsHeaderEventName ==
  pc = "done" =>
    \A k \in 1..Len(report) : sample_tree[report[k].attr].event_name = report[k].event

====
